---- MODULE Spec2Model ----
(***************************************************************************)
(* node-health-monitor: the health model (models.py), the configuration    *)
(* (config.py), the collectors (collectors/local.py, collectors/ssh.py)    *)
(* and the check orchestrator with its alert cooldown (monitor.py).        *)
(*                                                                         *)
(* Numbers.  The program's floats (percentages, load averages, thresholds) *)
(* are modelled as integers in hundredths: 9500 is 95.0, 400 is 4.0.  The  *)
(* normalized load load_average[0] / max(cpu_count, 1) is kept as an exact  *)
(* fraction [num, den] and compared by cross-multiplication.  Wall-clock   *)
(* time is in whole seconds.                                               *)
(***************************************************************************)
EXTENDS Integers, Sequences, FiniteSets, TLC

VARIABLES
    node,          \* the NodeHealth snapshot under evaluation
    nodeEval,      \* what status / get_alerts returned for it
    metricEval,    \* a MetricValue built from it and what .status returned
    cluster,       \* ClusterHealth.nodes under evaluation
    clusterEval,   \* what ClusterHealth.status and the counts returned
    collector,     \* a LocalCollector / SSHCollector and how far its collect() is
    remediation,   \* a RemediationHandler, the snapshot handed to handle() and what it did
    config,        \* HealthMonitor.config: nodes, thresholds, parallel_checks, max_workers
    on_alert,      \* HealthMonitor.on_alert is set (TRUE) or None (FALSE)
    callback_raises, \* the registered callback is one that can raise
    readings,      \* the memory_percent values the nodes can report
    calls,         \* the on_alert calls made: node name, message, time, raised or not
    last_health,   \* HealthMonitor._last_health: <<>> for None, else <<nodes>>
    alert_cooldown,\* HealthMonitor._alert_cooldown: cooldown key -> time of last send
    clock,         \* what datetime.now() returns, in seconds
    pc,            \* where the check_all call is: "idle", "parallel", "sequential"
    passes,        \* check_all calls made so far
    results,       \* check_all's local list results
    task,          \* per thread: the check_node call it runs
    sent,          \* per cooldown key: the times of the on_alert calls made for it
    dropped,       \* the alerts skipped by the cooldown test, as <<key, time>>
    processed,     \* per node: _process_alerts calls made for it in this pass
    returned,      \* what the last check_all call returned: <<>> or <<nodes>>
    directs        \* check_node calls made from outside check_all so far

modelVars == <<node, nodeEval, metricEval, cluster, clusterEval, collector, remediation>>

monitorVars == <<config, on_alert, callback_raises, readings, calls, last_health, alert_cooldown, clock, pc, passes,
                 results, task, sent, dropped, processed, returned, directs>>

vars == <<modelVars, monitorVars>>

-----------------------------------------------------------------------------
(* HealthStatus (models.py)                                                *)

HEALTHY == "healthy"
WARNING == "warning"
CRITICAL == "critical"
UNREACHABLE == "unreachable"
UNKNOWN == "unknown"

HealthStatus == {HEALTHY, WARNING, CRITICAL, UNREACHABLE, UNKNOWN}

None == "None"

-----------------------------------------------------------------------------
(* Helpers                                                                 *)

Max(a, b) == IF a >= b THEN a ELSE b

\* v >= t for a fraction v = num/den with den >= 1
FracGe(v, t) == v.num >= t * v.den

Whole(x) == [num |-> x, den |-> 1]

\* x in seq
Contains(seq, x) == \E i \in 1..Len(seq) : seq[i] = x

\* f"{x:.1f}" of a non-negative x given in hundredths.  A remainder of exactly
\* 5 is a decimal half, which only .25 and .75 are as binary floats (they
\* round half-even); the value sets below hold no other x.x5.
Fmt1(v) ==
    LET t == v \div 10
        r == v % 10
        q == IF r > 5 \/ (r = 5 /\ t % 2 = 1) THEN t + 1 ELSE t
    IN  ToString(q \div 10) \o "." \o ToString(q % 10)

\* f"{x:.2f}" of a non-negative x given in hundredths
Fmt2(v) ==
    ToString(v \div 100) \o "." \o ToString((v % 100) \div 10) \o ToString(v % 10)

-----------------------------------------------------------------------------
(* models.py                                                               *)

\* a stopped service that only warns
ServiceStatus_status_warns(svc) == IF svc.running THEN HEALTHY ELSE WARNING

\* ServiceStatus.status
ServiceStatus_status(svc) == IF svc.running THEN HEALTHY ELSE CRITICAL

\* MetricValue.status
MetricValue_status(mv) ==
    IF FracGe(mv.value, mv.threshold_critical) THEN CRITICAL
    ELSE IF FracGe(mv.value, mv.threshold_warning) THEN WARNING
    ELSE HEALTHY

\* _get_status with "value > critical": the boundary value == critical is missed
GetStatus_strictCritical(h, value, metric) ==
    IF metric \notin DOMAIN h.thresholds THEN UNKNOWN
    ELSE LET warning == h.thresholds[metric][1]
             critical == h.thresholds[metric][2]
         IN  IF FracGe(value, critical) /\ value.num # critical * value.den THEN CRITICAL
             ELSE IF FracGe(value, warning) THEN WARNING
             ELSE HEALTHY

\* _get_status that takes the default pair (80, 90) for an unregistered metric
GetStatus_defaultPair(h, value, metric) ==
    LET warning == IF metric \in DOMAIN h.thresholds THEN h.thresholds[metric][1] ELSE 8000
        critical == IF metric \in DOMAIN h.thresholds THEN h.thresholds[metric][2] ELSE 9000
    IN  IF FracGe(value, critical) THEN CRITICAL
        ELSE IF FracGe(value, warning) THEN WARNING
        ELSE HEALTHY

\* NodeHealth._get_status
GetStatus(h, value, metric) ==
    IF metric \notin DOMAIN h.thresholds THEN UNKNOWN
    ELSE LET warning == h.thresholds[metric][1]
             critical == h.thresholds[metric][2]
         IN  IF FracGe(value, critical) THEN CRITICAL
             ELSE IF FracGe(value, warning) THEN WARNING
             ELSE HEALTHY

\* NodeHealth.memory_status
memory_status(h) == GetStatus(h, Whole(h.memory_percent), "memory")

\* NodeHealth.disk_status
disk_status(h) == GetStatus(h, Whole(h.disk_percent), "disk")

\* the raw 1-minute load, not divided by the cpu count
normalized_load_raw(h) == [num |-> h.load_average, den |-> 1]

\* normalized_load = self.load_average[0] / max(self.cpu_count, 1)
normalized_load(h) == [num |-> h.load_average, den |-> Max(h.cpu_count, 1)]

\* NodeHealth.load_status
load_status(h) == GetStatus(h, normalized_load(h), "load")

\* the list without the services
NodeStatuses_metricsOnly(h) ==
    <<memory_status(h), disk_status(h), load_status(h)>>

\* the list NodeHealth.status builds: the three metrics, then the services
NodeStatuses(h) ==
    <<memory_status(h), disk_status(h), load_status(h)>>
        \o [i \in 1..Len(h.services) |-> ServiceStatus_status(h.services[i])]

\* status with the reachable test after the metric tests
NodeStatus_metricsFirst(h) ==
    LET statuses == NodeStatuses(h)
    IN  IF Contains(statuses, CRITICAL) THEN CRITICAL
        ELSE IF Contains(statuses, WARNING) THEN WARNING
        ELSE IF ~h.reachable THEN UNREACHABLE
        ELSE HEALTHY

\* status that hands an UNKNOWN metric on when nothing is worse
NodeStatus_unknownShows(h) ==
    IF ~h.reachable THEN UNREACHABLE
    ELSE LET statuses == NodeStatuses(h)
         IN  IF Contains(statuses, CRITICAL) THEN CRITICAL
             ELSE IF Contains(statuses, WARNING) THEN WARNING
             ELSE IF Contains(statuses, UNKNOWN) THEN UNKNOWN
             ELSE HEALTHY

\* status that lets an UNKNOWN metric count as a WARNING
NodeStatus_unknownWarns(h) ==
    IF ~h.reachable THEN UNREACHABLE
    ELSE LET statuses == NodeStatuses(h)
         IN  IF Contains(statuses, CRITICAL) THEN CRITICAL
             ELSE IF Contains(statuses, WARNING) \/ Contains(statuses, UNKNOWN)
             THEN WARNING
             ELSE HEALTHY

\* NodeHealth.status
NodeStatus(h) ==
    IF ~h.reachable THEN UNREACHABLE
    ELSE LET statuses == NodeStatuses(h)
         IN  IF Contains(statuses, CRITICAL) THEN CRITICAL
             ELSE IF Contains(statuses, WARNING) THEN WARNING
             ELSE HEALTHY

\* self.error_message or 'Connection failed'
ErrorText(h) ==
    IF h.error_message = None \/ h.error_message = "" THEN "Connection failed"
    ELSE h.error_message

\* a metric alert raised for CRITICAL only
MetricAlert_criticalOnly(status, label, shown) ==
    IF status = CRITICAL THEN <<"CRITICAL: " \o label \o shown>> ELSE <<>>

\* the alert, if any, of one metric: f"{LEVEL}: {label}{shown}{unit}"
MetricAlert(status, label, shown) ==
    IF status = CRITICAL THEN <<"CRITICAL: " \o label \o shown>>
    ELSE IF status = WARNING THEN <<"WARNING: " \o label \o shown>>
    ELSE <<>>

RECURSIVE ServiceAlerts(_)
\* for svc in self.services: if not svc.running: alerts.append(...)
ServiceAlerts(services) ==
    IF services = <<>> THEN <<>>
    ELSE (IF ~Head(services).running
          THEN <<"CRITICAL: Service '" \o Head(services).name \o "' is not running">>
          ELSE <<>>) \o ServiceAlerts(Tail(services))

\* get_alerts without the early return for an unreachable node
GetAlerts_noEarlyReturn(h) ==
    (IF ~h.reachable THEN <<"Node unreachable: " \o ErrorText(h)>> ELSE <<>>)
    \o MetricAlert(memory_status(h), "Memory at ", Fmt1(h.memory_percent) \o "%")
    \o MetricAlert(disk_status(h), "Disk at ", Fmt1(h.disk_percent) \o "%")
    \o MetricAlert(load_status(h), "Load average ", Fmt2(h.load_average))
    \o ServiceAlerts(h.services)

\* NodeHealth.get_alerts
GetAlerts(h) ==
    IF ~h.reachable THEN <<"Node unreachable: " \o ErrorText(h)>>
    ELSE MetricAlert(memory_status(h), "Memory at ", Fmt1(h.memory_percent) \o "%")
         \o MetricAlert(disk_status(h), "Disk at ", Fmt1(h.disk_percent) \o "%")
         \o MetricAlert(load_status(h), "Load average ", Fmt2(h.load_average))
         \o ServiceAlerts(h.services)

\* the number of nodes whose status is in the set S
CountStatus(nodes, S) == Cardinality({i \in 1..Len(nodes) : NodeStatus(nodes[i]) \in S})

\* cluster status that does not look for UNREACHABLE nodes
ClusterStatus_ignoresUnreachable(nodes) ==
    IF nodes = <<>> THEN UNKNOWN
    ELSE LET statuses == [i \in 1..Len(nodes) |-> NodeStatus(nodes[i])]
         IN  IF Contains(statuses, CRITICAL) THEN CRITICAL
             ELSE IF Contains(statuses, WARNING) THEN WARNING
             ELSE HEALTHY

\* ClusterHealth.status
ClusterStatus(nodes) ==
    IF nodes = <<>> THEN UNKNOWN
    ELSE LET statuses == [i \in 1..Len(nodes) |-> NodeStatus(nodes[i])]
         IN  IF Contains(statuses, UNREACHABLE) \/ Contains(statuses, CRITICAL)
             THEN CRITICAL
             ELSE IF Contains(statuses, WARNING) THEN WARNING
             ELSE HEALTHY

\* ClusterHealth.healthy_count
healthy_count(nodes) == CountStatus(nodes, {HEALTHY})

\* ClusterHealth.warning_count
warning_count(nodes) == CountStatus(nodes, {WARNING})

\* critical_count that leaves the UNREACHABLE nodes out
critical_count_criticalOnly(nodes) == CountStatus(nodes, {CRITICAL})

\* ClusterHealth.critical_count
critical_count(nodes) == CountStatus(nodes, {CRITICAL, UNREACHABLE})

\* ClusterHealth.get_all_alerts
RECURSIVE get_all_alerts(_)
get_all_alerts(nodes) ==
    IF nodes = <<>> THEN <<>>
    ELSE [i \in 1..Len(GetAlerts(Head(nodes))) |->
             <<Head(nodes).name, GetAlerts(Head(nodes))[i]>>]
         \o get_all_alerts(Tail(nodes))

-----------------------------------------------------------------------------
(* config.py: Thresholds                                                   *)

\* Thresholds(): the dataclass defaults
DefaultThresholds ==
    [memory_warning |-> 8000, memory_critical |-> 9000,
     disk_warning |-> 8000, disk_critical |-> 9000,
     load_warning |-> 400, load_critical |-> 800]

\* Thresholds.to_dict
Thresholds_to_dict(t) ==
    [m \in {"memory", "disk", "load"} |->
        CASE m = "memory" -> <<t.memory_warning, t.memory_critical>>
          [] m = "disk" -> <<t.disk_warning, t.disk_critical>>
          [] m = "load" -> <<t.load_warning, t.load_critical>>]

\* NodeHealth(name=, host=, platform=, reachable=, error_message=): every other
\* field keeps its dataclass default.  load_average is the 1-minute entry
\* load_average[0], the only one the program reads.
NodeHealthDefaults(name, host, platform, reachable, error_message) ==
    [name |-> name, host |-> host, platform |-> platform,
     reachable |-> reachable, error_message |-> error_message,
     cpu_count |-> 1, load_average |-> 0,
     memory_percent |-> 0, disk_percent |-> 0,
     services |-> <<>>, thresholds |-> <<>>]

-----------------------------------------------------------------------------
(* Inputs of the health model                                              *)

MaxServices == 2
MaxClusterNodes == 3

ServiceNames == <<"nginx", "mysql", "redis", "sshd">>

MemoryValues == {5000, 8000, 8500, 9000, 9500}
DiskValues == {4000, 9200}
LoadValues == {1000, 1600, 3200}
CpuCounts == {-1, 0, 1, 4}
ErrorMessages == {None, "", "Connection timeout"}

\* threshold dicts: the defaults, none, memory only, warning = critical,
\* warning > critical (which the program accepts), and no load pair
ThresholdDicts ==
    { Thresholds_to_dict(DefaultThresholds),
      <<>>,
      "memory" :> <<8000, 9000>>,
      ("memory" :> <<9000, 9000>>) @@ ("disk" :> <<8000, 9000>>) @@ ("load" :> <<400, 400>>),
      ("memory" :> <<9000, 8000>>) @@ ("disk" :> <<8000, 9000>>) @@ ("load" :> <<400, 800>>),
      ("memory" :> <<8000, 9000>>) @@ ("disk" :> <<8000, 9000>>) }

\* service lists of up to MaxServices entries, named in order
ServiceLists ==
    UNION { { [i \in 1..k |-> [name |-> ServiceNames[i], running |-> r[i]]] :
                r \in [1..k -> BOOLEAN] } : k \in 0..MaxServices }

NodeInputs ==
    { [name |-> "node1", host |-> "10.0.0.1", platform |-> "linux",
       reachable |-> e = "reachable",
       error_message |-> IF e = "reachable" THEN None ELSE e,
       cpu_count |-> c, load_average |-> l,
       memory_percent |-> m, disk_percent |-> d,
       services |-> s, thresholds |-> t] :
        e \in ErrorMessages \cup {"reachable"}, c \in CpuCounts, l \in LoadValues,
        m \in MemoryValues, d \in DiskValues, s \in ServiceLists,
        t \in ThresholdDicts }

NoNodeEval ==
    [done |-> FALSE, status |-> UNKNOWN, memory_status |-> UNKNOWN,
     disk_status |-> UNKNOWN, load_status |-> UNKNOWN, service_statuses |-> <<>>,
     alerts |-> <<>>]

NoMetricEval ==
    [done |-> FALSE, name |-> None, value |-> Whole(0), threshold_warning |-> 0,
     threshold_critical |-> 0, status |-> UNKNOWN]

NoClusterEval ==
    [done |-> FALSE, statuses |-> <<>>, status |-> UNKNOWN, healthy_count |-> 0,
     warning_count |-> 0, critical_count |-> 0]

\* one snapshot per overall status, and two that are HEALTHY for different
\* reasons: below every threshold, and no threshold registered
Sample(name, reachable, memory, running, thresholds) ==
    [name |-> name, host |-> "10.0.0.1", platform |-> "linux",
     reachable |-> reachable,
     error_message |-> IF reachable THEN None ELSE "Connection timeout",
     cpu_count |-> 4, load_average |-> 1000,
     memory_percent |-> memory, disk_percent |-> 4000,
     services |-> <<[name |-> "nginx", running |-> running]>>,
     thresholds |-> thresholds]

SampleNodes ==
    { Sample("healthy", TRUE, 5000, TRUE, Thresholds_to_dict(DefaultThresholds)),
      Sample("warning", TRUE, 8500, TRUE, Thresholds_to_dict(DefaultThresholds)),
      Sample("critical", TRUE, 9500, TRUE, Thresholds_to_dict(DefaultThresholds)),
      Sample("svcdown", TRUE, 5000, FALSE, Thresholds_to_dict(DefaultThresholds)),
      Sample("nothresholds", TRUE, 9500, TRUE, <<>>),
      Sample("unreachable", FALSE, 9500, TRUE, Thresholds_to_dict(DefaultThresholds)) }

ClusterInputs ==
    UNION { [1..k -> SampleNodes] : k \in 0..MaxClusterNodes }

-----------------------------------------------------------------------------
(* config.py: Config, NodeConfig.  An optional field is <<>> for None and  *)
(* <<x>> for a value x.                                                    *)

\* NodeConfig(name, platform, enabled, local, ssh, services, thresholds)
NodeConfig(name, enabled, local, ssh, services, thresholds) ==
    [name |-> name, platform |-> "linux", enabled |-> enabled, local |-> local,
     ssh |-> ssh, services |-> services, thresholds |-> thresholds]

\* SSHConfig(username, host): the host is what a snapshot carries
SSHConfig(host) == <<[host |-> host]>>

\* a cluster-global Thresholds that differs from the dataclass defaults
GlobalThresholds ==
    [memory_warning |-> 7000, memory_critical |-> 9000,
     disk_warning |-> 7000, disk_critical |-> 9000,
     load_warning |-> 200, load_critical |-> 800]

\* a node-level override
NodeThresholds ==
    [memory_warning |-> 6000, memory_critical |-> 9500,
     disk_warning |-> 8000, disk_critical |-> 9000,
     load_warning |-> 400, load_critical |-> 800]

\* Config(nodes, thresholds, parallel_checks, max_workers)
Config(nodes, thresholds, parallel_checks, max_workers) ==
    [nodes |-> nodes, thresholds |-> thresholds,
     parallel_checks |-> parallel_checks, max_workers |-> max_workers]

\* The configurations checked, each with whether a callback is registered:
\*  two enabled nodes and a disabled one, checked in parallel;
\*  the same pass run sequentially, the second node having no collector;
\*  three enabled nodes on a pool of two workers, one without a collector,
\*  and no callback;
\*  parallel_checks with a single enabled node (the sequential branch);
\*  no enabled node.
Setups ==
    { [config |-> Config(<<NodeConfig("n1", TRUE, TRUE, <<>>, <<>>, <<>>),
                           NodeConfig("n2", TRUE, FALSE, SSHConfig("10.0.0.2"), <<>>,
                                      <<NodeThresholds>>),
                           NodeConfig("n3", FALSE, FALSE, SSHConfig("10.0.0.3"), <<>>, <<>>)>>,
                         GlobalThresholds, TRUE, 2),
       on_alert |-> TRUE],
      [config |-> Config(<<NodeConfig("n1", TRUE, FALSE, SSHConfig("10.0.0.1"), <<>>, <<>>),
                           NodeConfig("n2", TRUE, FALSE, <<>>, <<>>, <<>>),
                           NodeConfig("n3", FALSE, TRUE, <<>>, <<>>, <<>>),
                           NodeConfig("n4", TRUE, TRUE, <<>>, <<"nginx">>, <<>>)>>,
                         DefaultThresholds, FALSE, 2),
       on_alert |-> TRUE],
      [config |-> Config(<<NodeConfig("n1", TRUE, TRUE, <<>>, <<>>, <<>>),
                           NodeConfig("n2", TRUE, FALSE, <<>>, <<>>, <<>>),
                           NodeConfig("n3", TRUE, FALSE, SSHConfig("10.0.0.3"), <<>>, <<>>)>>,
                         DefaultThresholds, TRUE, 2),
       on_alert |-> FALSE],
      [config |-> Config(<<NodeConfig("n1", FALSE, TRUE, <<>>, <<>>, <<>>),
                           NodeConfig("n2", TRUE, FALSE, SSHConfig("10.0.0.2"), <<>>, <<>>)>>,
                         GlobalThresholds, TRUE, 2),
       on_alert |-> TRUE],
      [config |-> Config(<<NodeConfig("n1", FALSE, TRUE, <<>>, <<>>, <<>>)>>,
                         DefaultThresholds, TRUE, 2),
       on_alert |-> TRUE] }

\* Config.get_enabled_nodes, as the positions in config.nodes, in order
RECURSIVE EnabledFrom(_, _)
EnabledFrom(nodes, i) ==
    IF i > Len(nodes) THEN <<>>
    ELSE (IF nodes[i].enabled THEN <<i>> ELSE <<>>) \o EnabledFrom(nodes, i + 1)

\* get_enabled_nodes that forgets the enabled flag
get_enabled_nodes_all(cfg) == [i \in 1..Len(cfg.nodes) |-> i]

get_enabled_nodes(cfg) == EnabledFrom(cfg.nodes, 1)

-----------------------------------------------------------------------------
(* collectors: what collect() can do for a node                            *)

\* memory_percent values a collector reports: below and above the thresholds
CollectedMemory == {5000, 9500}

\* two readings above the critical threshold whose formatted values differ
DriftingMemory == {9500, 9510}

\* LocalCollector.collect / SSHCollector.collect: a reachable snapshot with the
\* node's name, the configured services and the resolved thresholds, or an
\* unreachable one carrying the failure text; for an SSH node whose commands
\* fail, the reachable snapshot with cpu_count 1 and every metric 0.0
CollectorResults(c) ==
    LET host == IF c.local THEN "localhost" ELSE c.ssh[1].host
        thresholds == IF c.thresholds # <<>> THEN c.thresholds[1] ELSE DefaultThresholds
    IN  { [name |-> c.name, host |-> host, platform |-> c.platform,
           reachable |-> TRUE, error_message |-> None,
           cpu_count |-> 4, load_average |-> 1000,
           memory_percent |-> m, disk_percent |-> 4000,
           services |-> [k \in 1..Len(c.services) |->
                            [name |-> c.services[k], running |-> r]],
           thresholds |-> Thresholds_to_dict(thresholds)] :
            m \in readings,
            r \in IF c.services = <<>> THEN {TRUE} ELSE BOOLEAN }
        \cup { [NodeHealthDefaults(c.name, host, c.platform, FALSE, "Connection timeout")
                  EXCEPT !.thresholds = <<>>] }
        \cup (IF c.local THEN {}
              ELSE { [NodeHealthDefaults(c.name, host, c.platform, TRUE, None)
                        EXCEPT !.services = [k \in 1..Len(c.services) |->
                                                [name |-> c.services[k], running |-> FALSE]],
                               !.thresholds = Thresholds_to_dict(thresholds)] })

\* str(e) of an exception that escapes check_node
ExceptionTexts == {"collector crashed"}

-----------------------------------------------------------------------------
(* collectors/ssh.py, collectors/local.py: collect(), step by step, for a  *)
(* linux node.  A command's stdout is kept as the tokens of                *)
(* stdout.strip().split(); a token is text int() accepts ("int"), text     *)
(* only float() accepts ("float") or other text ("word"), with its value   *)
(* in hundredths.                                                          *)

IntTok(n) == [kind |-> "int", val |-> n * 100]
FloatTok(v) == [kind |-> "float", val |-> v]
WordTok == [kind |-> "word", val |-> 0]

\* int(text) and float(text) succeed
IntParses(tok) == tok.kind = "int"
FloatParses(tok) == tok.kind \in {"int", "float"}

\* str(e) of the ValueError int() and float() raise
IntErrorText == "invalid literal for int() with base 10"
FloatErrorText == "could not convert string to float"

\* what paramiko does for one command: it raises (connect, exec_command,
\* recv_exit_status or read), or the command ends with an exit code and output
Raises(text) == [raises |-> TRUE, text |-> text, exit_code |-> 1, stdout |-> <<>>]
Exits(code, stdout) == [raises |-> FALSE, text |-> "", exit_code |-> code, stdout |-> stdout]

\* SSHCollector.execute_command: every exception becomes (1, "", str(e))
execute_command(o) ==
    IF o.raises
    THEN [exit_code |-> 1, stdout |-> <<>>, stderr |-> o.text]
    ELSE [exit_code |-> o.exit_code, stdout |-> o.stdout, stderr |-> ""]

\* the failures of client.connect: network, authentication, timeout
ConnectFailures == {"Connection refused", "Authentication failed.", "timed out"}

\* a command that runs out of its 30 seconds on a connected client
CommandTimeout == "timed out"

\* the node answers ("up") or every connect fails with the link's text
Links == {[up |-> TRUE, text |-> ""]} \cup {[up |-> FALSE, text |-> t] : t \in ConnectFailures}

\* the outputs of the linux commands
CommandOutputs(command) ==
    CASE command = "cpu_count" -> {Exits(0, <<IntTok(4)>>), Exits(0, <<WordTok>>)}
      [] command = "cpu_percent" -> {Exits(0, <<FloatTok(1250)>>)}
      [] command = "load" ->
            {Exits(0, <<FloatTok(1000), FloatTok(800), FloatTok(600), WordTok, IntTok(5678)>>)}
      [] command = "memory" ->
            {Exits(0, <<WordTok, IntTok(100), IntTok(95), IntTok(5)>>),
             Exits(0, <<WordTok, WordTok, WordTok>>)}
      [] command = "disk" -> {Exits(0, <<WordTok, IntTok(100), IntTok(40), IntTok(60)>>)}
      [] command = "service_check" -> {Exits(0, <<IntTok(1234)>>), Exits(1, <<>>)}

\* what one execute_command call can meet on a link
CommandOutcomes(link, command) ==
    IF link.up
    THEN CommandOutputs(command) \cup {Raises(CommandTimeout)}
    ELSE {Raises(link.text)}

\* the result of a parsing step: the value, or the text of the ValueError
Parsed(value) == [ok |-> TRUE, value |-> value, text |-> ""]
ParseError(text) == [ok |-> FALSE, value |-> 0, text |-> text]

\* _collect_cpu: int(stdout.strip().split("=")[-1]) if stdout.strip() else 1
parse_cpu_count(stdout) ==
    IF stdout = <<>> THEN Parsed(1)
    ELSE IF Len(stdout) = 1 /\ IntParses(stdout[1]) THEN Parsed(stdout[1].val \div 100)
    ELSE ParseError(IntErrorText)

\* _collect_cpu: float(...) with ValueError giving 0.0
parse_cpu_percent(stdout) ==
    IF Len(stdout) = 1 /\ FloatParses(stdout[1]) THEN Parsed(stdout[1].val) ELSE Parsed(0)

\* _collect_load, linux: the first of three floats, (0.0, 0.0, 0.0) for fewer parts
parse_load(stdout) ==
    IF Len(stdout) >= 3
    THEN IF \A k \in 1..3 : FloatParses(stdout[k])
         THEN Parsed(stdout[1].val) ELSE ParseError(FloatErrorText)
    ELSE Parsed(0)

\* (used / total) * 100 if total > 0 else 0, in hundredths
UsedPercent(total, used) == IF total > 0 THEN (used * 10000) \div total ELSE 0

\* _collect_memory / _collect_disk, linux: parts[1] is the total and parts[2]
\* the used bytes when there are at least minParts parts, else (0.0, 0.0, 0.0)
parse_usage(stdout, minParts) ==
    IF Len(stdout) >= minParts
    THEN IF IntParses(stdout[2]) /\ IntParses(stdout[3])
         THEN Parsed(UsedPercent(stdout[2].val, stdout[3].val))
         ELSE ParseError(IntErrorText)
    ELSE Parsed(0)

\* check_service, unix: running when pgrep exits 0 with output
parse_service(r) == r.exit_code = 0 /\ r.stdout # <<>>

\* the node configurations a collector is built for
CollectorConfigs ==
    { NodeConfig("n1", TRUE, local, ssh, services, thresholds) :
        local \in BOOLEAN,
        ssh \in {<<>>, SSHConfig("10.0.0.1")},
        services \in {<<>>, <<"nginx", "mysql">>},
        thresholds \in {<<>>, <<NodeThresholds>>} }

\* a collector before collect() is called.  failures holds the texts of the
\* exceptions execute_command and psutil met so far (it is not program state)
NewCollector(kind, cfg, link) ==
    [kind |-> kind, config |-> cfg, link |-> link, step |-> "start",
     client |-> FALSE, cpu_count |-> 1, cpu_percent |-> 0, load_average |-> 0,
     memory_percent |-> 0, disk_percent |-> 0, services |-> <<>>,
     failures |-> {}, result |-> <<>>]

\* no collector takes part
NoCollector ==
    NewCollector("none", NodeConfig("n1", TRUE, FALSE, <<>>, <<>>, <<>>), [up |-> TRUE, text |-> ""])

\* check_node builds LocalCollector for local nodes and SSHCollector for nodes
\* with an ssh section; SSHCollector can also be built without one
CollectorInputs ==
    { NewCollector("local", cfg, [up |-> TRUE, text |-> ""]) :
        cfg \in {c \in CollectorConfigs : c.local /\ c.ssh = <<>>} }
    \cup { NewCollector("ssh", cfg, link) :
             cfg \in {c \in CollectorConfigs : ~c.local}, link \in Links }

\* self.config.thresholds or self._get_default_thresholds(), then to_dict()
CollectorThresholds(cfg) ==
    Thresholds_to_dict(IF cfg.thresholds # <<>> THEN cfg.thresholds[1] ELSE DefaultThresholds)

\* the host a collector's snapshots carry
CollectorHost(c) ==
    IF c.kind = "local" THEN "localhost"
    ELSE IF c.config.ssh = <<>> THEN "unknown" ELSE c.config.ssh[1].host

\* the reachable snapshot collect() returns at the end of its try block
CollectedHealth(c) ==
    [name |-> c.config.name, host |-> CollectorHost(c), platform |-> c.config.platform,
     reachable |-> TRUE, error_message |-> None,
     cpu_count |-> c.cpu_count, load_average |-> c.load_average,
     memory_percent |-> c.memory_percent, disk_percent |-> c.disk_percent,
     services |-> c.services, thresholds |-> CollectorThresholds(c.config)]

\* the snapshot of collect()'s except branch; SSHCollector's finally closes
\* the client
FailedCollect(c, text) ==
    [c EXCEPT !.step = "done", !.client = FALSE,
              !.result = <<NodeHealthDefaults(c.config.name, CollectorHost(c),
                                              c.config.platform, FALSE, text)>>]

\* one execute_command on the collector's link: the client is connected once
\* a connect succeeds, and a raised exception's text is remembered
AfterCommand(c, o) ==
    [c EXCEPT !.client = c.link.up,
              !.failures = IF o.raises THEN c.failures \cup {o.text} ELSE c.failures]

-----------------------------------------------------------------------------
(* remediation/handler.py: RemediationHandler, config.py: RemediationConfig *)

\* how a script run by subprocess.run can end: exit code 0, another exit
\* code, TimeoutExpired, or another exception (the shell cannot be started)
ScriptOutcomes == {"ok", "exit1", "timeout", "oserror"}

\* the scripts a configuration names; "" is a script left empty
MemoryScripts == {None, "", "free_memory.sh"}
DiskScripts == {None, "clean_disk.sh"}
LoadScripts == {None, "renice.sh"}

\* on_service_down dicts: none, one for the first watched service, one for a
\* service that comes second, and both
ServiceScripts ==
    { <<>>,
      "nginx" :> "restart_nginx.sh",
      "mysql" :> "restart_mysql.sh",
      ("nginx" :> "restart_nginx.sh") @@ ("mysql" :> "restart_mysql.sh") }

\* RemediationConfig
RemediationConfigs ==
    [enabled : BOOLEAN, scripts_dir : {"./remediation"},
     on_high_memory : MemoryScripts, on_high_disk : DiskScripts,
     on_high_load : LoadScripts, on_service_down : ServiceScripts]

\* RemediationHandler.__init__
RemediationHandlers == [config : RemediationConfigs, dry_run : BOOLEAN]

\* the snapshots handed to handle(): every level of every metric, every
\* service list, under the default thresholds
RemediationSnapshots ==
    { h \in NodeInputs :
        /\ h.reachable
        /\ h.cpu_count = 4
        /\ h.memory_percent \in {5000, 8500, 9500}
        /\ h.thresholds = Thresholds_to_dict(DefaultThresholds) }

\* the truth value Python gives an optional script name
Truthy(script) == script # None /\ script # ""

\* one of the three metric rules of handle(): the arguments of the
\* _execute_script call it makes and the name its result is appended under
\* (mutant: the rule fires from WARNING on)
MetricRule_warningFires(status, script, action) ==
    IF status \in {WARNING, CRITICAL} /\ Truthy(script)
    THEN <<[script |-> script, action |-> action, extra_env |-> <<>>,
            label |-> action]>>
    ELSE <<>>

MetricRule(status, script, action) ==
    IF status = CRITICAL /\ Truthy(script)
    THEN <<[script |-> script, action |-> action, extra_env |-> <<>>,
            label |-> action]>>
    ELSE <<>>

\* the loop over health.services of handle()
\* (mutant: a running service is remediated too)
RECURSIVE ServiceRules_runningToo(_, _, _)
ServiceRules_runningToo(cfg, services, i) ==
    IF i > Len(services) THEN <<>>
    ELSE LET service == services[i]
             this == IF service.name \in DOMAIN cfg.on_service_down
                     THEN <<[script |-> cfg.on_service_down[service.name],
                             action |-> "service_down:" \o service.name,
                             extra_env |-> ("NHM_SERVICE" :> service.name),
                             label |-> "restart_" \o service.name]>>
                     ELSE <<>>
         IN  this \o ServiceRules_runningToo(cfg, services, i + 1)

RECURSIVE ServiceRules(_, _, _)
ServiceRules(cfg, services, i) ==
    IF i > Len(services) THEN <<>>
    ELSE LET service == services[i]
             this == IF ~service.running /\ service.name \in DOMAIN cfg.on_service_down
                     THEN <<[script |-> cfg.on_service_down[service.name],
                             action |-> "service_down:" \o service.name,
                             extra_env |-> ("NHM_SERVICE" :> service.name),
                             label |-> "restart_" \o service.name]>>
                     ELSE <<>>
         IN  this \o ServiceRules(cfg, services, i + 1)

\* the _execute_script calls of one handle() call, in the order it makes them
Selected(cfg, health) ==
    IF ~cfg.enabled THEN <<>>
    ELSE MetricRule(memory_status(health), cfg.on_high_memory, "high_memory")
            \o MetricRule(disk_status(health), cfg.on_high_disk, "high_disk")
            \o MetricRule(load_status(health), cfg.on_high_load, "high_load")
            \o ServiceRules(cfg, health.services, 1)

\* the environment _execute_script hands to the script: the node facts, the
\* action, then extra_env written over them
ScriptEnv(health, action, extra_env) ==
    extra_env @@ ("NHM_NODE_NAME" :> health.name) @@ ("NHM_NODE_HOST" :> health.host)
              @@ ("NHM_NODE_PLATFORM" :> health.platform) @@ ("NHM_ACTION" :> action)

\* RemediationHandler._execute_script: (success, message)
execute_script(handler, script, outcome) ==
    IF handler.dry_run
    THEN <<TRUE, "Dry run: " \o handler.config.scripts_dir \o "/" \o script>>
    ELSE CASE outcome = "ok" -> <<TRUE, "Success">>
           [] outcome = "exit1" -> <<FALSE, "Exit code: 1">>
           [] outcome = "timeout" -> <<FALSE, "Script timed out after 60s">>
           [] outcome = "oserror" -> <<FALSE, "[Errno 8] Exec format error">>

\* RemediationHandler.handle: the list it returns, outs[k] being how the
\* k-th script ends
handle(handler, health, outs) ==
    LET sel == Selected(handler.config, health)
    IN  [k \in 1..Len(sel) |->
            <<sel[k].label>> \o execute_script(handler, sel[k].script, outs[k])]

\* no handler takes part
NoRemediation ==
    [handler |-> [config |-> [enabled |-> FALSE, scripts_dir |-> "./remediation",
                              on_high_memory |-> None, on_high_disk |-> None,
                              on_high_load |-> None, on_service_down |-> <<>>],
                  dry_run |-> FALSE],
     health |-> NodeHealthDefaults("node1", "10.0.0.1", "linux", TRUE, None),
     done |-> FALSE, executed |-> <<>>, results |-> <<>>]

-----------------------------------------------------------------------------
(* monitor.py: HealthMonitor                                               *)

MaxPasses == 2
MaxDirects == 1
MaxClock == 300

\* the suppression window of _process_alerts
CooldownSeconds == 300

\* the clock is observed in steps of half a window
TickSeconds == CooldownSeconds \div 2

\* threads: thread i > 0 is the check_node call check_all makes for
\* config.nodes[i]; thread 0 is a check_node call made from outside check_all
DirectThread == 0
Threads == {DirectThread} \cup (1..Len(config.nodes))

IdleTask ==
    [state |-> "none", node |-> 0, health |-> NodeHealthDefaults("", "", "", TRUE, None),
     exc |-> None, alerts |-> <<>>, now |-> 0]

\* a cooldown key that leaves the message out
CooldownKey_nameOnly(name, alert_msg) == name

\* f"{health.name}:{alert_msg}"
CooldownKey(name, alert_msg) == name \o ":" \o alert_msg

\* the cooldown test with "<= 300": a repeat exactly 300 seconds later is lost
InCooldown_inclusive(cooldown, key, now) ==
    key \in DOMAIN cooldown /\ now - cooldown[key] <= CooldownSeconds

\* cooldown_key in self._alert_cooldown and (now - last_alert).total_seconds() < 300
InCooldown(cooldown, key, now) ==
    key \in DOMAIN cooldown /\ now - cooldown[key] < CooldownSeconds

\* the times at which the callback was invoked for a key
SentAt(key) == IF key \in DOMAIN sent THEN sent[key] ELSE <<>>

\* a no-collector snapshot that is left reachable
NoCollectorHealth_reachable(c) ==
    NodeHealthDefaults(c.name, "unknown", c.platform, TRUE,
                       "No collector configured (set local=True or provide SSH config)")

\* the snapshot check_node returns for a node with no collector
NoCollectorHealth(c) ==
    NodeHealthDefaults(c.name, "unknown", c.platform, FALSE,
                       "No collector configured (set local=True or provide SSH config)")

\* a failure snapshot that loses the exception's text
ParallelFailureHealth_noText(c, e) ==
    NodeHealthDefaults(c.name, "unknown", "unknown", FALSE, None)

\* the snapshot check_all's parallel branch builds for a failed future
ParallelFailureHealth(c, e) ==
    NodeHealthDefaults(c.name, "unknown", "unknown", FALSE, e)

\* the snapshot check_all's sequential branch builds for a failed check_node
SequentialFailureHealth(c, e) ==
    NodeHealthDefaults(c.name, IF c.ssh # <<>> THEN c.ssh[1].host ELSE "unknown",
                       c.platform, FALSE, e)

\* the check of a thread has ended: check_node returned or raised
Finished(t) == task[t].state \in {"returned", "raised"}

\* the thread occupies a pool worker
Running(t) == task[t].state \in {"collecting", "alerting", "sending", "hung"}

\* HealthMonitor(config, on_alert)
InitMonitor ==
    /\ \E s \in Setups : config = s.config /\ on_alert = s.on_alert
    /\ callback_raises = FALSE
    /\ readings = CollectedMemory
    /\ calls = {}
    /\ last_health = <<>>
    /\ alert_cooldown = <<>>
    /\ clock = 0
    /\ pc = "idle"
    /\ passes = 0
    /\ results = <<>>
    /\ task = [t \in Threads |-> IdleTask]
    /\ sent = <<>>
    /\ dropped = {}
    /\ processed = [i \in 1..Len(config.nodes) |-> 0]
    /\ returned = <<>>
    /\ directs = 0

\* a monitor that is constructed and never used
MonitorUnused ==
    /\ config = Config(<<>>, DefaultThresholds, TRUE, 2)
    /\ on_alert = FALSE
    /\ callback_raises = FALSE
    /\ readings = CollectedMemory
    /\ calls = {}
    /\ last_health = <<>>
    /\ alert_cooldown = <<>>
    /\ clock = 0
    /\ pc = "idle"
    /\ passes = 0
    /\ results = <<>>
    /\ task = [t \in {DirectThread} |-> IdleTask]
    /\ sent = <<>>
    /\ dropped = {}
    /\ processed = <<>>
    /\ returned = <<>>
    /\ directs = 0

\* no health-model evaluation takes part
ModelUnused ==
    /\ node = NodeHealthDefaults("node1", "10.0.0.1", "linux", TRUE, None)
    /\ nodeEval = NoNodeEval
    /\ metricEval = NoMetricEval
    /\ cluster = <<>>
    /\ clusterEval = NoClusterEval
    /\ collector = NoCollector
    /\ remediation = NoRemediation

\* time passes between two check_all calls: a call is short against the
\* resolution of the clock
Tick ==
    /\ clock + TickSeconds <= MaxClock
    /\ pc = "idle"
    /\ clock' = clock + TickSeconds
    /\ UNCHANGED <<config, on_alert, callback_raises, readings, calls, last_health, alert_cooldown, pc, passes, results,
                   task, sent, dropped, processed, returned, directs>>
    /\ UNCHANGED modelVars

\* check_all, lines 77-91: no enabled node returns an empty ClusterHealth at
\* once; otherwise the parallel branch submits one check_node per enabled node
\* and the sequential branch starts its loop
CheckAllBegin ==
    /\ pc = "idle"
    /\ passes < MaxPasses
    /\ passes' = passes + 1
    /\ LET enabled_nodes == get_enabled_nodes(config)
       IN  IF enabled_nodes = <<>>
           THEN /\ returned' = << <<>> >>
                /\ UNCHANGED <<pc, results, task, processed>>
           ELSE /\ pc' = IF config.parallel_checks /\ Len(enabled_nodes) > 1
                         THEN "parallel" ELSE "sequential"
                /\ results' = <<>>
                /\ task' = [t \in Threads |->
                              IF Contains(enabled_nodes, t)
                              THEN [IdleTask EXCEPT !.state = "queued", !.node = t]
                              ELSE IF t = DirectThread THEN task[t] ELSE IdleTask]
                /\ processed' = [i \in 1..Len(config.nodes) |-> 0]
                /\ returned' = <<>>
    /\ UNCHANGED <<config, on_alert, callback_raises, readings, calls, last_health, alert_cooldown, clock, sent, dropped, directs>>
    /\ UNCHANGED modelVars

\* check_node, lines 43-62, called by thread t for config.nodes[i]: the
\* collector is chosen (a node with neither local nor ssh returns the
\* no-collector snapshot at once) and the global thresholds are written into
\* a node config that has none
EnterCheckNode(t, i) ==
    LET c == config.nodes[i]
    IN  IF ~c.local /\ c.ssh = <<>>
        THEN /\ task' = [task EXCEPT ![t] = [IdleTask EXCEPT !.state = "returned",
                                                             !.node = i,
                                                             !.health = NoCollectorHealth(c)]]
             /\ UNCHANGED config
        ELSE /\ task' = [task EXCEPT ![t] = [IdleTask EXCEPT !.state = "collecting",
                                                             !.node = i]]
             /\ config' = IF c.thresholds = <<>>
                          THEN [config EXCEPT !.nodes[i].thresholds = <<config.thresholds>>]
                          ELSE config

\* a pool worker takes the oldest submitted check_node call
WorkerStart(t) ==
    /\ pc = "parallel"
    /\ t # DirectThread
    /\ task[t].state = "queued"
    /\ \A u \in 1..(t - 1) : task[u].state # "queued"
    /\ Cardinality({u \in 1..Len(config.nodes) : Running(u)}) < config.max_workers
    /\ EnterCheckNode(t, t)
    /\ UNCHANGED <<on_alert, callback_raises, readings, calls, last_health, alert_cooldown, clock, pc, passes, results,
                   sent, dropped, processed, returned, directs>>
    /\ UNCHANGED modelVars

\* a loop that starts the checks in any order, without waiting
SequentialStart_anyOrder(t) ==
    /\ pc = "sequential"
    /\ t # DirectThread
    /\ task[t].state = "queued"
    /\ EnterCheckNode(t, t)
    /\ UNCHANGED <<on_alert, callback_raises, readings, calls, last_health, alert_cooldown, clock, pc, passes, results,
                   sent, dropped, processed, returned, directs>>
    /\ UNCHANGED modelVars

\* the sequential loop calls check_node for the next node once the results
\* of the nodes before it are in the list
SequentialStart(t) ==
    /\ pc = "sequential"
    /\ t # DirectThread
    /\ task[t].state = "queued"
    /\ \A u \in 1..(t - 1) : task[u].state \in {"none", "appended"}
    /\ EnterCheckNode(t, t)
    /\ UNCHANGED <<on_alert, callback_raises, readings, calls, last_health, alert_cooldown, clock, pc, passes, results,
                   sent, dropped, processed, returned, directs>>
    /\ UNCHANGED modelVars

\* _process_alerts, lines 130-133, entered with the snapshot: without a
\* callback it returns at once, otherwise it walks health.get_alerts()
BeginAlerts(t, health) ==
    LET alerts == IF on_alert THEN GetAlerts(health) ELSE <<>>
    IN  [task[t] EXCEPT !.health = health, !.alerts = alerts,
                        !.state = IF alerts = <<>> THEN "returned" ELSE "alerting"]

\* check_node, lines 64-67: collect() returns a snapshot, and _process_alerts
\* is called with it
CollectReturns(t) ==
    /\ task[t].state = "collecting"
    /\ \E health \in CollectorResults(config.nodes[task[t].node]) :
          task' = [task EXCEPT ![t] = BeginAlerts(t, health)]
    /\ processed' = [processed EXCEPT ![task[t].node] = @ + 1]
    /\ UNCHANGED <<config, on_alert, callback_raises, readings, calls, last_health, alert_cooldown, clock, pc, passes,
                   results, sent, dropped, returned, directs>>
    /\ UNCHANGED modelVars

\* the SSH collector's collect() raises (its finally clause closes the
\* connection outside the try): the exception leaves check_node.  The local
\* collector catches every exception of its own.
CollectRaises(t) ==
    /\ task[t].state = "collecting"
    /\ ~config.nodes[task[t].node].local
    /\ \E e \in ExceptionTexts :
          task' = [task EXCEPT ![t].state = "raised", ![t].exc = e]
    /\ UNCHANGED <<config, on_alert, callback_raises, readings, calls, last_health, alert_cooldown, clock, pc, passes,
                   results, sent, dropped, processed, returned, directs>>
    /\ UNCHANGED modelVars

\* the SSH collector's collect() never returns (recv_exit_status waits for a
\* peer that stays silent)
CollectHangs(t) ==
    /\ task[t].state = "collecting"
    /\ ~config.nodes[task[t].node].local
    /\ task' = [task EXCEPT ![t].state = "hung"]
    /\ UNCHANGED <<config, on_alert, callback_raises, readings, calls, last_health, alert_cooldown, clock, pc, passes,
                   results, sent, dropped, processed, returned, directs>>
    /\ UNCHANGED modelVars

\* what follows one alert of the loop: the next alert, or check_node returns
AfterAlert(t) ==
    IF Len(task[t].alerts) > 1 THEN "alerting" ELSE "returned"

\* _process_alerts, lines 136-142: the clock is read and the cooldown map is
\* tested; an alert inside the window is skipped
AlertTest(t) ==
    /\ task[t].state = "alerting"
    /\ LET key == CooldownKey(task[t].health.name, Head(task[t].alerts))
       IN  IF InCooldown(alert_cooldown, key, clock)
           THEN /\ task' = [task EXCEPT ![t].alerts = Tail(@), ![t].state = AfterAlert(t)]
                /\ dropped' = dropped \cup {<<key, clock>>}
           ELSE /\ task' = [task EXCEPT ![t].now = clock, ![t].state = "sending"]
                /\ UNCHANGED dropped
    /\ UNCHANGED <<config, on_alert, callback_raises, readings, calls, last_health, alert_cooldown, clock, pc, passes,
                   results, sent, processed, returned, directs>>
    /\ UNCHANGED modelVars

\* the outcomes of one on_alert call: it returns, or (a callback that can
\* raise) it raises an Exception
CallbackOutcomes == IF callback_raises THEN BOOLEAN ELSE {FALSE}

\* the record of one on_alert(health.name, alert_msg, health) call
CallRecord(t, raised) ==
    [name |-> task[t].health.name, msg |-> Head(task[t].alerts),
     time |-> task[t].now, raised |-> raised]

\* _process_alerts without the try around the callback: its exception leaves
\* check_node
AlertSend_uncaught(t) ==
    /\ task[t].state = "sending"
    /\ LET alert_msg == Head(task[t].alerts)
           key == CooldownKey(task[t].health.name, alert_msg)
       IN  /\ alert_cooldown' = (key :> task[t].now) @@ alert_cooldown
           /\ sent' = (key :> Append(SentAt(key), task[t].now)) @@ sent
    /\ \E raised \in CallbackOutcomes :
          /\ calls' = calls \cup {CallRecord(t, raised)}
          /\ task' = IF raised
                     THEN [task EXCEPT ![t].state = "raised", ![t].exc = "callback failed"]
                     ELSE [task EXCEPT ![t].alerts = Tail(@), ![t].state = AfterAlert(t)]
    /\ UNCHANGED <<config, on_alert, callback_raises, readings, last_health, clock, pc, passes, results,
                   dropped, processed, returned, directs>>
    /\ UNCHANGED modelVars

\* _process_alerts that stores the time only after the callback returned
AlertSend_recordOnSuccess(t) ==
    /\ task[t].state = "sending"
    /\ \E raised \in CallbackOutcomes :
          LET alert_msg == Head(task[t].alerts)
              key == CooldownKey(task[t].health.name, alert_msg)
          IN  /\ alert_cooldown' = IF raised THEN alert_cooldown
                                   ELSE (key :> task[t].now) @@ alert_cooldown
              /\ sent' = (key :> Append(SentAt(key), task[t].now)) @@ sent
              /\ calls' = calls \cup {CallRecord(t, raised)}
    /\ task' = [task EXCEPT ![t].alerts = Tail(@), ![t].state = AfterAlert(t)]
    /\ UNCHANGED <<config, on_alert, callback_raises, readings, last_health, clock, pc, passes, results,
                   dropped, processed, returned, directs>>
    /\ UNCHANGED modelVars

\* _process_alerts, lines 144-149: the time read is stored under the key and
\* the callback is invoked; an exception of the callback is caught and logged
AlertSend(t) ==
    /\ task[t].state = "sending"
    /\ LET alert_msg == Head(task[t].alerts)
           key == CooldownKey(task[t].health.name, alert_msg)
       IN  /\ alert_cooldown' = (key :> task[t].now) @@ alert_cooldown
           /\ sent' = (key :> Append(SentAt(key), task[t].now)) @@ sent
    /\ \E raised \in CallbackOutcomes : calls' = calls \cup {CallRecord(t, raised)}
    /\ task' = [task EXCEPT ![t].alerts = Tail(@), ![t].state = AfterAlert(t)]
    /\ UNCHANGED <<config, on_alert, callback_raises, readings, last_health, clock, pc, passes, results,
                   dropped, processed, returned, directs>>
    /\ UNCHANGED modelVars

\* check_all, lines 93-106: as_completed yields a finished future; its
\* snapshot, or the failure snapshot built from its exception, is appended
ParallelAppend(t) ==
    /\ pc = "parallel"
    /\ t # DirectThread
    /\ Finished(t)
    /\ results' = Append(results,
                         IF task[t].state = "returned" THEN task[t].health
                         ELSE ParallelFailureHealth(config.nodes[t], task[t].exc))
    /\ task' = [task EXCEPT ![t].state = "appended"]
    /\ UNCHANGED <<config, on_alert, callback_raises, readings, calls, last_health, alert_cooldown, clock, pc, passes,
                   sent, dropped, processed, returned, directs>>
    /\ UNCHANGED modelVars

\* check_all, lines 109-121: check_node returned or raised inside the loop
SequentialAppend(t) ==
    /\ pc = "sequential"
    /\ t # DirectThread
    /\ Finished(t)
    /\ results' = Append(results,
                         IF task[t].state = "returned" THEN task[t].health
                         ELSE SequentialFailureHealth(config.nodes[t], task[t].exc))
    /\ task' = [task EXCEPT ![t].state = "appended"]
    /\ UNCHANGED <<config, on_alert, callback_raises, readings, calls, last_health, alert_cooldown, clock, pc, passes,
                   sent, dropped, processed, returned, directs>>
    /\ UNCHANGED modelVars

\* check_all, lines 123-126: every enabled node's result is in the list; the
\* ClusterHealth is stored in _last_health and returned
CheckAllReturn ==
    /\ pc \in {"parallel", "sequential"}
    /\ \A t \in 1..Len(config.nodes) : task[t].state \in {"none", "appended"}
    /\ last_health' = <<results>>
    /\ returned' = <<results>>
    /\ pc' = "idle"
    /\ UNCHANGED <<config, on_alert, callback_raises, readings, calls, alert_cooldown, clock, passes, results, task,
                   sent, dropped, processed, directs>>
    /\ UNCHANGED modelVars

\* HealthMonitor.get_last_health
get_last_health == last_health

\* HealthMonitor.get_summary: a ClusterHealth object is always true, so only
\* None takes the first branch
get_summary ==
    IF last_health = <<>>
    THEN [status |-> "unknown", message |-> "No health check has been performed yet"]
    ELSE LET health == last_health[1]
         IN  [status |-> ClusterStatus(health),
              nodes |-> [total |-> Len(health), healthy |-> healthy_count(health),
                         warning |-> warning_count(health),
                         critical |-> critical_count(health)],
              alerts |-> Len(get_all_alerts(health))]

\* dashboard, api_node_health: check_node is called for a configured node in
\* a thread of its own, whatever check_all is doing
DirectCheckNode(i) ==
    /\ directs < MaxDirects
    /\ task[DirectThread].state \in {"none", "returned", "raised"}
    /\ directs' = directs + 1
    /\ EnterCheckNode(DirectThread, i)
    /\ UNCHANGED <<on_alert, callback_raises, readings, calls, last_health, alert_cooldown, clock, pc, passes, results,
                   sent, dropped, processed, returned>>
    /\ UNCHANGED modelVars

\* the threads of the check_node calls check_all makes
PoolThreads == Threads \ {DirectThread}

\* the steps of a check_all call and of the check_node calls it makes
CheckAllStep ==
    \/ CheckAllBegin
    \/ \E t \in PoolThreads : WorkerStart(t)
    \/ \E t \in PoolThreads : SequentialStart(t)
    \/ \E t \in PoolThreads : CollectReturns(t)
    \/ \E t \in PoolThreads : CollectRaises(t)
    \/ \E t \in PoolThreads : CollectHangs(t)
    \/ \E t \in PoolThreads : AlertTest(t)
    \/ \E t \in PoolThreads : AlertSend(t)
    \/ \E t \in PoolThreads : ParallelAppend(t)
    \/ \E t \in PoolThreads : SequentialAppend(t)
    \/ CheckAllReturn

Init == InitMonitor /\ ModelUnused

\* check_all calls one after another, as the CLI's watch loop makes them
Next ==
    \/ CheckAllBegin
    \/ \E t \in PoolThreads : WorkerStart(t)
    \/ \E t \in PoolThreads : SequentialStart(t)
    \/ \E t \in PoolThreads : CollectReturns(t)
    \/ \E t \in PoolThreads : CollectRaises(t)
    \/ \E t \in PoolThreads : CollectHangs(t)
    \/ \E t \in PoolThreads : AlertTest(t)
    \/ \E t \in PoolThreads : AlertSend(t)
    \/ \E t \in PoolThreads : ParallelAppend(t)
    \/ \E t \in PoolThreads : SequentialAppend(t)
    \/ CheckAllReturn
    \/ Tick

Spec == Init /\ [][Next]_vars

\* check_all calls with a check_node call of another thread overlapping them
NextOverlap ==
    \/ CheckAllBegin
    \/ \E t \in PoolThreads : SequentialStart(t)
    \/ \E i \in 1..Len(config.nodes) : DirectCheckNode(i)
    \/ \E t \in Threads : CollectReturns(t)
    \/ \E t \in Threads : CollectRaises(t)
    \/ \E t \in Threads : CollectHangs(t)
    \/ \E t \in Threads : AlertTest(t)
    \/ \E t \in Threads : AlertSend(t)
    \/ \E t \in PoolThreads : SequentialAppend(t)
    \/ CheckAllReturn
    \/ Tick

\* the monitor of the overlapping calls: a callback and one enabled node, so
\* check_all takes its sequential branch
InitOverlap ==
    /\ Init
    /\ on_alert
    /\ Len(get_enabled_nodes(config)) = 1

SpecOverlap == InitOverlap /\ [][NextOverlap]_vars

\* a monitor whose callback can raise, over a local node with a watched
\* service that reports memory above the critical threshold
AlertSetup ==
    Config(<<NodeConfig("n1", TRUE, TRUE, <<>>, <<"nginx">>, <<>>)>>,
           DefaultThresholds, FALSE, 2)

InitAlerts ==
    /\ config = AlertSetup
    /\ on_alert = TRUE
    /\ callback_raises = TRUE
    /\ readings = DriftingMemory
    /\ calls = {}
    /\ last_health = <<>>
    /\ alert_cooldown = <<>>
    /\ clock = 0
    /\ pc = "idle"
    /\ passes = 0
    /\ results = <<>>
    /\ task = [t \in Threads |-> IdleTask]
    /\ sent = <<>>
    /\ dropped = {}
    /\ processed = [i \in 1..Len(config.nodes) |-> 0]
    /\ returned = <<>>
    /\ directs = 0
    /\ ModelUnused

NextAlerts ==
    \/ CheckAllBegin
    \/ \E t \in PoolThreads : SequentialStart(t)
    \/ \E t \in PoolThreads : CollectReturns(t)
    \/ \E t \in PoolThreads : AlertTest(t)
    \/ \E t \in PoolThreads : AlertSend(t)
    \/ \E t \in PoolThreads : SequentialAppend(t)
    \/ CheckAllReturn
    \/ Tick

SpecAlerts == InitAlerts /\ [][NextAlerts]_vars

-----------------------------------------------------------------------------
(* The health model as a state machine: a snapshot is drawn, then read     *)

\* the value a metric's status is computed from
MetricInput(h, metric) ==
    CASE metric = "memory" -> Whole(h.memory_percent)
      [] metric = "disk" -> Whole(h.disk_percent)
      [] metric = "load" -> normalized_load(h)

\* node.status, the three metric statuses and node.get_alerts() are read
EvaluateNode ==
    /\ ~nodeEval.done
    /\ nodeEval' = [done |-> TRUE, status |-> NodeStatus(node),
                    memory_status |-> memory_status(node),
                    disk_status |-> disk_status(node),
                    load_status |-> load_status(node),
                    service_statuses |-> [i \in 1..Len(node.services) |->
                                             ServiceStatus_status(node.services[i])],
                    alerts |-> GetAlerts(node)]
    /\ UNCHANGED <<node, metricEval, cluster, clusterEval, collector, remediation>>
    /\ UNCHANGED monitorVars

\* a MetricValue is built for a registered metric and its status is read
EvaluateMetricValue ==
    /\ ~metricEval.done
    /\ \E metric \in DOMAIN node.thresholds :
          LET mv == [name |-> metric, value |-> MetricInput(node, metric),
                     threshold_warning |-> node.thresholds[metric][1],
                     threshold_critical |-> node.thresholds[metric][2]]
          IN  metricEval' = [done |-> TRUE, name |-> mv.name, value |-> mv.value,
                             threshold_warning |-> mv.threshold_warning,
                             threshold_critical |-> mv.threshold_critical,
                             status |-> MetricValue_status(mv)]
    /\ UNCHANGED <<node, nodeEval, cluster, clusterEval, collector, remediation>>
    /\ UNCHANGED monitorVars

\* cluster.status and the three counts are read
EvaluateCluster ==
    /\ ~clusterEval.done
    /\ clusterEval' = [done |-> TRUE,
                       statuses |-> [i \in 1..Len(cluster) |-> NodeStatus(cluster[i])],
                       status |-> ClusterStatus(cluster),
                       healthy_count |-> healthy_count(cluster),
                       warning_count |-> warning_count(cluster),
                       critical_count |-> critical_count(cluster)]
    /\ UNCHANGED <<node, nodeEval, metricEval, cluster, collector, remediation>>
    /\ UNCHANGED monitorVars

InitNode ==
    /\ node \in NodeInputs
    /\ nodeEval = NoNodeEval
    /\ metricEval = NoMetricEval
    /\ cluster = <<>>
    /\ clusterEval = NoClusterEval
    /\ collector = NoCollector
    /\ remediation = NoRemediation
    /\ MonitorUnused

NextNode == EvaluateNode \/ EvaluateMetricValue

SpecNode == InitNode /\ [][NextNode]_vars

InitCluster ==
    /\ node = NodeHealthDefaults("node1", "10.0.0.1", "linux", TRUE, None)
    /\ nodeEval = NoNodeEval
    /\ metricEval = NoMetricEval
    /\ cluster \in ClusterInputs
    /\ clusterEval = NoClusterEval
    /\ collector = NoCollector
    /\ remediation = NoRemediation
    /\ MonitorUnused

NextCluster == EvaluateCluster

SpecCluster == InitCluster /\ [][NextCluster]_vars

-----------------------------------------------------------------------------
(* handle() as a state machine                                             *)

\* handler.handle(health) is called and returns
Handle ==
    /\ ~remediation.done
    /\ LET sel == Selected(remediation.handler.config, remediation.health)
       IN  \E outs \in [1..Len(sel) -> ScriptOutcomes] :
              remediation' =
                [remediation EXCEPT
                    !.done = TRUE,
                    !.executed = [k \in 1..Len(sel) |->
                                    [script |-> sel[k].script, action |-> sel[k].action,
                                     extra_env |-> sel[k].extra_env,
                                     env |-> ScriptEnv(remediation.health, sel[k].action,
                                                       sel[k].extra_env)]],
                    !.results = handle(remediation.handler, remediation.health, outs)]
    /\ UNCHANGED <<node, nodeEval, metricEval, cluster, clusterEval, collector>>
    /\ UNCHANGED monitorVars

InitRemediate ==
    /\ remediation \in [handler : RemediationHandlers, health : RemediationSnapshots,
                        done : {FALSE}, executed : {<<>>}, results : {<<>>}]
    /\ node = NodeHealthDefaults("node1", "10.0.0.1", "linux", TRUE, None)
    /\ nodeEval = NoNodeEval
    /\ metricEval = NoMetricEval
    /\ cluster = <<>>
    /\ clusterEval = NoClusterEval
    /\ collector = NoCollector
    /\ MonitorUnused

NextRemediate == Handle

SpecRemediate == InitRemediate /\ [][NextRemediate]_vars

-----------------------------------------------------------------------------
(* collect() as a state machine                                            *)

\* the other variables of the health model
evalVars == <<node, nodeEval, metricEval, cluster, clusterEval, remediation>>

\* SSHCollector.collect without an ssh section
SSHCollectNoConfig ==
    /\ collector.kind = "ssh" /\ collector.step = "start"
    /\ collector.config.ssh = <<>>
    /\ collector' = [collector EXCEPT !.step = "done",
                        !.result = <<NodeHealthDefaults(collector.config.name, "unknown",
                                         collector.config.platform, FALSE,
                                         "No SSH configuration")>>]
    /\ UNCHANGED <<evalVars, monitorVars>>

\* self._collect_cpu(platform): the cpu_count and the cpu_percent command
SSHCollectCpu ==
    /\ collector.kind = "ssh" /\ collector.step = "start"
    /\ collector.config.ssh # <<>>
    /\ \E o1 \in CommandOutcomes(collector.link, "cpu_count"),
          o2 \in CommandOutcomes(collector.link, "cpu_percent") :
          LET count == parse_cpu_count(execute_command(o1).stdout)
              c1 == AfterCommand(collector, o1)
              c2 == AfterCommand(c1, o2)
          IN  collector' =
                IF ~count.ok THEN FailedCollect(c1, count.text)
                ELSE [c2 EXCEPT !.step = "load", !.cpu_count = count.value,
                                !.cpu_percent = parse_cpu_percent(execute_command(o2).stdout).value]
    /\ UNCHANGED <<evalVars, monitorVars>>

\* self._collect_load(platform)
SSHCollectLoad ==
    /\ collector.kind = "ssh" /\ collector.step = "load"
    /\ \E o \in CommandOutcomes(collector.link, "load") :
          LET load == parse_load(execute_command(o).stdout)
              c1 == AfterCommand(collector, o)
          IN  collector' =
                IF ~load.ok THEN FailedCollect(c1, load.text)
                ELSE [c1 EXCEPT !.step = "memory", !.load_average = load.value]
    /\ UNCHANGED <<evalVars, monitorVars>>

\* self._collect_memory(platform)
SSHCollectMemory ==
    /\ collector.kind = "ssh" /\ collector.step = "memory"
    /\ \E o \in CommandOutcomes(collector.link, "memory") :
          LET mem == parse_usage(execute_command(o).stdout, 3)
              c1 == AfterCommand(collector, o)
          IN  collector' =
                IF ~mem.ok THEN FailedCollect(c1, mem.text)
                ELSE [c1 EXCEPT !.step = "disk", !.memory_percent = mem.value]
    /\ UNCHANGED <<evalVars, monitorVars>>

\* self._collect_disk(platform)
SSHCollectDisk ==
    /\ collector.kind = "ssh" /\ collector.step = "disk"
    /\ \E o \in CommandOutcomes(collector.link, "disk") :
          LET disk == parse_usage(execute_command(o).stdout, 4)
              c1 == AfterCommand(collector, o)
          IN  collector' =
                IF ~disk.ok THEN FailedCollect(c1, disk.text)
                ELSE [c1 EXCEPT !.step = "services", !.disk_percent = disk.value]
    /\ UNCHANGED <<evalVars, monitorVars>>

\* one turn of the loop over self.config.services: self.check_service(name)
SSHCheckService ==
    /\ collector.kind = "ssh" /\ collector.step = "services"
    /\ Len(collector.services) < Len(collector.config.services)
    /\ \E o \in CommandOutcomes(collector.link, "service_check") :
          LET name == collector.config.services[Len(collector.services) + 1]
              c1 == AfterCommand(collector, o)
          IN  collector' =
                [c1 EXCEPT !.services =
                    Append(collector.services,
                           [name |-> name, running |-> parse_service(execute_command(o))])]
    /\ UNCHANGED <<evalVars, monitorVars>>

\* return NodeHealth(reachable=True, ...), then finally: self.close()
SSHCollectReturn ==
    /\ collector.kind = "ssh" /\ collector.step = "services"
    /\ Len(collector.services) = Len(collector.config.services)
    /\ collector' = [collector EXCEPT !.step = "done", !.client = FALSE,
                                      !.result = <<CollectedHealth(collector)>>]
    /\ UNCHANGED <<evalVars, monitorVars>>

\* what psutil reports to the local collector
LocalMemory == {5000, 9500}

\* str(e) of an exception psutil raises
PsutilFailures == {"Permission denied"}

\* LocalCollector.collect up to the services loop: the psutil calls raise, or
\* give the cpu count, the load average, the memory and the disk usage
LocalCollectMetrics ==
    /\ collector.kind = "local" /\ collector.step = "start"
    /\ \/ \E text \in PsutilFailures :
             collector' = FailedCollect([collector EXCEPT !.failures = {text}], text)
       \/ \E m \in LocalMemory :
             collector' = [collector EXCEPT !.step = "services", !.cpu_count = 4,
                               !.cpu_percent = 1250, !.load_average = 1000,
                               !.memory_percent = m, !.disk_percent = 4000]
    /\ UNCHANGED <<evalVars, monitorVars>>

\* one turn of the loop over self.config.services: psutil.process_iter finds
\* the process or not
LocalCheckService ==
    /\ collector.kind = "local" /\ collector.step = "services"
    /\ Len(collector.services) < Len(collector.config.services)
    /\ \E running \in BOOLEAN :
          collector' =
            [collector EXCEPT !.services =
                Append(collector.services,
                       [name |-> collector.config.services[Len(collector.services) + 1],
                        running |-> running])]
    /\ UNCHANGED <<evalVars, monitorVars>>

\* return NodeHealth(reachable=True, ...)
LocalCollectReturn ==
    /\ collector.kind = "local" /\ collector.step = "services"
    /\ Len(collector.services) = Len(collector.config.services)
    /\ collector' = [collector EXCEPT !.step = "done",
                                      !.result = <<CollectedHealth(collector)>>]
    /\ UNCHANGED <<evalVars, monitorVars>>

InitCollect ==
    /\ collector \in CollectorInputs
    /\ remediation = NoRemediation
    /\ node = NodeHealthDefaults("node1", "10.0.0.1", "linux", TRUE, None)
    /\ nodeEval = NoNodeEval
    /\ metricEval = NoMetricEval
    /\ cluster = <<>>
    /\ clusterEval = NoClusterEval
    /\ MonitorUnused

NextCollect ==
    \/ SSHCollectNoConfig
    \/ SSHCollectCpu
    \/ SSHCollectLoad
    \/ SSHCollectMemory
    \/ SSHCollectDisk
    \/ SSHCheckService
    \/ SSHCollectReturn
    \/ LocalCollectMetrics
    \/ LocalCheckService
    \/ LocalCollectReturn

SpecCollect == InitCollect /\ [][NextCollect]_vars

-----------------------------------------------------------------------------
(* Properties of the health model                                          *)

\* what the evaluation stored for a metric
EvalStatus(e, metric) ==
    CASE metric = "memory" -> e.memory_status
      [] metric = "disk" -> e.disk_status
      [] metric = "load" -> e.load_status

\* value >= critical gives CRITICAL, warning <= value < critical gives WARNING,
\* value < warning gives HEALTHY, for a pair with warning <= critical
Classified(value, warning, critical, status) ==
    warning <= critical =>
        /\ value.num >= critical * value.den => status = CRITICAL
        /\ (value.num >= warning * value.den /\ value.num < critical * value.den)
              => status = WARNING
        /\ value.num < warning * value.den => status = HEALTHY

\* C1: with a registered pair warning <= critical, both _get_status and
\* MetricValue.status give CRITICAL for value >= critical, WARNING for
\* warning <= value < critical and HEALTHY below warning, so the boundaries
\* value = warning and value = critical are WARNING and CRITICAL.
C1_Classification ==
    /\ nodeEval.done =>
          \A metric \in DOMAIN node.thresholds :
              Classified(MetricInput(node, metric), node.thresholds[metric][1],
                         node.thresholds[metric][2], EvalStatus(nodeEval, metric))
    /\ metricEval.done =>
          Classified(metricEval.value, metricEval.threshold_warning,
                     metricEval.threshold_critical, metricEval.status)

\* both boundaries are met: memory sits on its critical threshold, the
\* normalized load on its warning threshold
C1_Witness ==
    /\ nodeEval.done /\ metricEval.done
    /\ node.thresholds = Thresholds_to_dict(DefaultThresholds)
    /\ node.memory_percent = node.thresholds["memory"][2]
    /\ nodeEval.memory_status = CRITICAL
    /\ metricEval.name = "load"
    /\ metricEval.value.num = metricEval.threshold_warning * metricEval.value.den
    /\ metricEval.status = WARNING

\* C2: a snapshot with reachable = false has overall status UNREACHABLE,
\* whatever its metric values, thresholds and services are.
C2_UnreachableOverrides ==
    (nodeEval.done /\ ~node.reachable) => nodeEval.status = UNREACHABLE

\* an unreachable snapshot whose stored memory is critical and whose
\* stored service is down
C2_Witness ==
    /\ nodeEval.done /\ ~node.reachable
    /\ nodeEval.memory_status = CRITICAL
    /\ \E i \in 1..Len(node.services) : ~node.services[i].running
    /\ nodeEval.status = UNREACHABLE

\* the statuses a reachable node's overall status is taken over
SeverityInputs(h, e) ==
    {e.memory_status, e.disk_status, e.load_status}
        \cup {IF h.services[i].running THEN HEALTHY ELSE CRITICAL :
                  i \in 1..Len(h.services)}

\* C3: a reachable snapshot's overall status is the most severe of the three
\* metric statuses and the service statuses (CRITICAL, else WARNING, else
\* HEALTHY); UNKNOWN never raises it.
C3_WorstWins ==
    (nodeEval.done /\ node.reachable) =>
        LET S == SeverityInputs(node, nodeEval)
        IN  /\ CRITICAL \in S => nodeEval.status = CRITICAL
            /\ (CRITICAL \notin S /\ WARNING \in S) => nodeEval.status = WARNING
            /\ (CRITICAL \notin S /\ WARNING \notin S) => nodeEval.status = HEALTHY

\* reachable, all three metrics UNKNOWN, every service running: HEALTHY
C3_Witness ==
    /\ nodeEval.done /\ node.reachable
    /\ nodeEval.memory_status = UNKNOWN
    /\ nodeEval.disk_status = UNKNOWN
    /\ nodeEval.load_status = UNKNOWN
    /\ Len(node.services) > 0
    /\ \A i \in 1..Len(node.services) : node.services[i].running
    /\ nodeEval.status = HEALTHY

-----------------------------------------------------------------------------
(* Properties of NodeHealth.get_alerts and the metric statuses             *)

\* the metrics in the order get_alerts reads them
AlertMetrics == <<"memory", "disk", "load">>

\* the text a metric's alert carries after its level
MetricText(h, metric) ==
    CASE metric = "memory" -> "Memory at " \o Fmt1(h.memory_percent) \o "%"
      [] metric = "disk" -> "Disk at " \o Fmt1(h.disk_percent) \o "%"
      [] metric = "load" -> "Load average " \o Fmt2(h.load_average)

LevelText(status) == IF status = CRITICAL THEN "CRITICAL: " ELSE "WARNING: "

\* the k-th metric is WARNING or CRITICAL
Breached(k) == EvalStatus(nodeEval, AlertMetrics[k]) \in {WARNING, CRITICAL}

\* the breached metrics among the first k
BreachedUpTo(k) == {j \in 1..k : Breached(j)}

\* the services of the node that are not running
DownServices == {i \in 1..Len(node.services) : ~node.services[i].running}

\* C12: for a reachable snapshot get_alerts returns one alert per metric that
\* is WARNING or CRITICAL and one per service that is not running, nothing
\* else, in the order memory, disk, load, then the services in list order.
C12_AlertPerBreach ==
    (nodeEval.done /\ node.reachable) =>
        /\ Len(nodeEval.alerts) = Cardinality(BreachedUpTo(3)) + Cardinality(DownServices)
        /\ \A k \in 1..3 :
              Breached(k) =>
                  nodeEval.alerts[Cardinality(BreachedUpTo(k))]
                      = LevelText(EvalStatus(nodeEval, AlertMetrics[k]))
                            \o MetricText(node, AlertMetrics[k])
        /\ \A i \in DownServices :
              nodeEval.alerts[Cardinality(BreachedUpTo(3))
                                + Cardinality({j \in DownServices : j <= i})]
                  = "CRITICAL: Service '" \o node.services[i].name \o "' is not running"

\* memory WARNING, disk HEALTHY, load CRITICAL, the first service running and
\* the second not: three alerts
C12_Witness ==
    /\ nodeEval.done /\ node.reachable
    /\ nodeEval.memory_status = WARNING
    /\ nodeEval.disk_status = HEALTHY
    /\ nodeEval.load_status = CRITICAL
    /\ Len(node.services) = 2
    /\ node.services[1].running /\ ~node.services[2].running
    /\ Len(nodeEval.alerts) = 3

\* C13: a reachable snapshot without services whose memory and disk percent
\* are at or above their critical thresholds and whose 1-minute load average
\* is, as a raw number, at or above the load critical threshold has exactly
\* three alerts: Memory, Disk and Load, all CRITICAL.
C13_ThreeCriticalAlerts ==
    ( /\ nodeEval.done /\ node.reachable
      /\ node.services = <<>>
      /\ DOMAIN node.thresholds = {"memory", "disk", "load"}
      /\ node.memory_percent >= node.thresholds["memory"][2]
      /\ node.disk_percent >= node.thresholds["disk"][2]
      /\ node.load_average >= node.thresholds["load"][2] ) =>
        nodeEval.alerts = << "CRITICAL: " \o MetricText(node, "memory"),
                             "CRITICAL: " \o MetricText(node, "disk"),
                             "CRITICAL: " \o MetricText(node, "load") >>

\* max(cpu_count, 1), written out
Cores(h) == IF h.cpu_count >= 1 THEN h.cpu_count ELSE 1

C15_UnreachableOneAlert ==
    (nodeEval.done /\ ~node.reachable) =>
        nodeEval.alerts =
            << "Node unreachable: " \o
                (IF node.error_message \in {None, ""} THEN "Connection failed"
                 ELSE node.error_message) >>

\* an unreachable snapshot without a message whose stored memory is critical
\* and whose stored service is down
C15_Witness ==
    /\ nodeEval.done /\ ~node.reachable
    /\ node.error_message = None
    /\ nodeEval.memory_status = CRITICAL
    /\ DownServices # {}
    /\ Len(nodeEval.alerts) = 1

\* C17: a service is HEALTHY when it runs and CRITICAL when it does not,
\* never WARNING, so a reachable node with a service that is not running is
\* CRITICAL whatever its metrics are.
C17_ServiceDownCritical ==
    nodeEval.done =>
        /\ \A i \in 1..Len(node.services) :
              nodeEval.service_statuses[i]
                  = IF node.services[i].running THEN HEALTHY ELSE CRITICAL
        /\ (node.reachable /\ DownServices # {}) => nodeEval.status = CRITICAL

\* all three metrics HEALTHY, one service down: CRITICAL
C17_Witness ==
    /\ nodeEval.done /\ node.reachable
    /\ nodeEval.memory_status = HEALTHY
    /\ nodeEval.disk_status = HEALTHY
    /\ nodeEval.load_status = HEALTHY
    /\ Cardinality(DownServices) = 1
    /\ nodeEval.status = CRITICAL

\* C18: a metric without a threshold pair in the snapshot's thresholds has
\* status UNKNOWN, whatever its value.
C18_NoPairUnknown ==
    nodeEval.done =>
        \A k \in 1..3 :
            AlertMetrics[k] \notin DOMAIN node.thresholds
                => EvalStatus(nodeEval, AlertMetrics[k]) = UNKNOWN

\* only memory has a pair: a disk at 92% and a load of 32 per core are UNKNOWN
C18_Witness ==
    /\ nodeEval.done
    /\ DOMAIN node.thresholds = {"memory"}
    /\ node.disk_percent = 9200
    /\ node.load_average = 3200 /\ node.cpu_count = 1
    /\ nodeEval.disk_status = UNKNOWN /\ nodeEval.load_status = UNKNOWN
    /\ nodeEval.memory_status # UNKNOWN

\* C26: the overall status of a snapshot is HEALTHY if and only if
\* get_alerts returns no alert: a WARNING, CRITICAL or UNREACHABLE node has at
\* least one alert and a node with an alert is never HEALTHY.
C26_HealthyIffNoAlerts ==
    nodeEval.done => (nodeEval.status = HEALTHY <=> nodeEval.alerts = <<>>)

\* a reachable node whose only finding is a stopped service: not HEALTHY, one
\* alert; no metric has a threshold pair
C26_Witness ==
    /\ nodeEval.done
    /\ node.reachable
    /\ node.thresholds = <<>>
    /\ Len(node.services) = 2
    /\ node.services[1].running /\ ~node.services[2].running
    /\ nodeEval.status = CRITICAL
    /\ Len(nodeEval.alerts) = 1

-----------------------------------------------------------------------------
(* Properties of RemediationHandler                                        *)

\* the action names handle() ran scripts under, in order
ActionsRun == [k \in 1..Len(remediation.executed) |-> remediation.executed[k].action]

ActionRan(action) == \E k \in 1..Len(remediation.executed) : ActionsRun[k] = action

\* where an action stands in the order memory, disk, load, services
ActionRank(action) ==
    CASE action = "high_memory" -> 1
      [] action = "high_disk" -> 2
      [] action = "high_load" -> 3
      [] OTHER -> 3 + CHOOSE i \in 1..Len(remediation.health.services) :
                        action = "service_down:" \o remediation.health.services[i].name

\* the three metric rules and the order of the actions
MetricRulesHold ==
    /\ ActionRan("high_memory") <=>
          (memory_status(remediation.health) = CRITICAL
             /\ Truthy(remediation.handler.config.on_high_memory))
    /\ ActionRan("high_disk") <=>
          (disk_status(remediation.health) = CRITICAL
             /\ Truthy(remediation.handler.config.on_high_disk))
    /\ ActionRan("high_load") <=>
          (load_status(remediation.health) = CRITICAL
             /\ Truthy(remediation.handler.config.on_high_load))
    /\ \A j \in 1..Len(ActionsRun), k \in 1..Len(ActionsRun) :
          j < k => ActionRank(ActionsRun[j]) < ActionRank(ActionsRun[k])

\* C23 as stated: for every snapshot, "high_memory", "high_disk" and
\* "high_load" are emitted if and only if the metric's status is CRITICAL and
\* its script is configured, each rule on its own, and the actions come in the
\* order memory, disk, load, services in the snapshot's order.
C23_MetricActions == remediation.done => MetricRulesHold

\* C23, amended: the rules hold for a handler whose configuration is
\* enabled; a handler that is not enabled emits no action at all.
C23_EnabledMetricActions ==
    remediation.done =>
        IF remediation.handler.config.enabled
        THEN MetricRulesHold
        ELSE remediation.executed = <<>> /\ remediation.results = <<>>

\* an enabled handler with every metric script configured left a WARNING
\* memory alone and ran the disk, load and a service script, in that order
C23_Witness ==
    /\ remediation.done
    /\ remediation.handler.config.enabled
    /\ memory_status(remediation.health) = WARNING
    /\ Truthy(remediation.handler.config.on_high_memory)
    /\ Len(remediation.executed) = 3
    /\ ActionsRun[1] = "high_disk" /\ ActionsRun[2] = "high_load"
    /\ ActionsRun[3] = "service_down:nginx"

\* the service rule for the i-th service of the snapshot
ServiceRuleHolds(i) ==
    LET service == remediation.health.services[i]
        ran == { k \in 1..Len(remediation.executed) :
                    remediation.executed[k].action = "service_down:" \o service.name }
    IN  IF ~service.running
             /\ service.name \in DOMAIN remediation.handler.config.on_service_down
        THEN /\ Cardinality(ran) = 1
             /\ \A k \in ran :
                   /\ remediation.executed[k].script
                         = remediation.handler.config.on_service_down[service.name]
                   /\ remediation.executed[k].env["NHM_SERVICE"] = service.name
        ELSE ran = {}

\* C24 as stated: every service of the snapshot that is not running and has
\* a script configured gets exactly one action "service_down:<name>" with an
\* environment override naming it; a running service, or one without a
\* script, gets none.
C24_ServiceActions ==
    remediation.done =>
        \A i \in 1..Len(remediation.health.services) : ServiceRuleHolds(i)

\* C24, amended: the rule holds for a handler whose configuration is enabled;
\* a handler that is not enabled runs no service script.
C24_EnabledServiceActions ==
    remediation.done =>
        IF remediation.handler.config.enabled
        THEN \A i \in 1..Len(remediation.health.services) : ServiceRuleHolds(i)
        ELSE \A k \in 1..Len(remediation.executed) :
                remediation.executed[k].extra_env = <<>>

\* an enabled handler with scripts for two services saw one of them down and
\* the other running, and ran one script
C24_Witness ==
    /\ remediation.done
    /\ remediation.handler.config.enabled
    /\ Len(remediation.health.services) >= 2
    /\ DOMAIN remediation.handler.config.on_service_down = {"nginx", "mysql"}
    /\ remediation.health.services[1].running
    /\ ~remediation.health.services[2].running
    /\ \E k \in 1..Len(remediation.executed) :
          /\ remediation.executed[k].action = "service_down:mysql"
          /\ remediation.executed[k].env["NHM_SERVICE"] = "mysql"

-----------------------------------------------------------------------------
(* Properties of ClusterHealth                                             *)

\* some node of the cluster has a status in S
SomeNode(S) == \E i \in 1..Len(cluster) : NodeStatus(cluster[i]) \in S

\* C4: an empty cluster is UNKNOWN; otherwise it is CRITICAL iff some node is
\* CRITICAL or UNREACHABLE, else WARNING iff some node is WARNING, else HEALTHY.
C4_ClusterStatus ==
    clusterEval.done =>
        /\ cluster = <<>> => clusterEval.status = UNKNOWN
        /\ cluster # <<>> =>
              /\ clusterEval.status = CRITICAL <=> SomeNode({CRITICAL, UNREACHABLE})
              /\ clusterEval.status = WARNING <=>
                    (~SomeNode({CRITICAL, UNREACHABLE}) /\ SomeNode({WARNING}))
              /\ clusterEval.status = HEALTHY <=>
                    (~SomeNode({CRITICAL, UNREACHABLE}) /\ ~SomeNode({WARNING}))

\* a cluster that is CRITICAL only because a node is UNREACHABLE
C4_Witness ==
    /\ clusterEval.done
    /\ SomeNode({UNREACHABLE}) /\ SomeNode({WARNING}) /\ ~SomeNode({CRITICAL})
    /\ clusterEval.status = CRITICAL

\* the nodes of the cluster whose status is in S
NodesWith(S) == {i \in 1..Len(cluster) : NodeStatus(cluster[i]) \in S}

\* C16: healthy_count counts the HEALTHY nodes, warning_count the WARNING
\* nodes, and critical_count the CRITICAL nodes plus the UNREACHABLE nodes.
C16_Counts ==
    clusterEval.done =>
        /\ clusterEval.healthy_count = Cardinality(NodesWith({HEALTHY}))
        /\ clusterEval.warning_count = Cardinality(NodesWith({WARNING}))
        /\ clusterEval.critical_count
              = Cardinality(NodesWith({CRITICAL})) + Cardinality(NodesWith({UNREACHABLE}))
        /\ clusterEval.healthy_count + clusterEval.warning_count
              + clusterEval.critical_count = Len(cluster)

\* a HEALTHY, a CRITICAL and an UNREACHABLE node: critical_count is 2
C16_Witness ==
    /\ clusterEval.done
    /\ Len(cluster) = 3
    /\ Cardinality(NodesWith({HEALTHY})) = 1
    /\ Cardinality(NodesWith({CRITICAL})) = 1
    /\ Cardinality(NodesWith({UNREACHABLE})) = 1
    /\ clusterEval.critical_count = 2

\* C30: the overall status of a node is never UNKNOWN, it is HEALTHY,
\* WARNING, CRITICAL or UNREACHABLE, so the three counts of a ClusterHealth
\* add up to the number of its nodes.
C30_NoUnknownNode ==
    clusterEval.done =>
        /\ Len(clusterEval.statuses) = Len(cluster)
        /\ \A i \in 1..Len(cluster) :
              clusterEval.statuses[i] \in {HEALTHY, WARNING, CRITICAL, UNREACHABLE}
        /\ clusterEval.healthy_count + clusterEval.warning_count
              + clusterEval.critical_count = Len(clusterEval.statuses)

\* a cluster with a node whose metrics are all UNKNOWN, next to an
\* unreachable one
C30_Witness ==
    /\ clusterEval.done
    /\ Len(cluster) = 2
    /\ cluster[1].thresholds = <<>> /\ cluster[1].reachable
    /\ memory_status(cluster[1]) = UNKNOWN
    /\ ~cluster[2].reachable
    /\ clusterEval.healthy_count = 1 /\ clusterEval.critical_count = 1

-----------------------------------------------------------------------------
(* Properties of HealthMonitor                                             *)

\* a check_all call has returned a ClusterHealth and no new call has begun
HasReturned == pc = "idle" /\ returned # <<>>

\* the entries of the returned ClusterHealth that carry the name of node i
EntriesOf(i) ==
    {k \in 1..Len(returned[1]) : returned[1][k].name = config.nodes[i].name}

\* C5: in both execution modes the ClusterHealth check_all returns holds
\* exactly one NodeHealth per enabled node, matched by name, and none for a
\* disabled node, whatever the order in which the parallel checks complete.
C5_OnePerEnabledNode ==
    HasReturned =>
        /\ \A i \in 1..Len(config.nodes) :
              Cardinality(EntriesOf(i)) = IF config.nodes[i].enabled THEN 1 ELSE 0
        /\ Len(returned[1]) = Cardinality({i \in 1..Len(config.nodes) : config.nodes[i].enabled})

\* a parallel pass whose results are not in configuration order, over a
\* configuration with a disabled node
C5_Witness ==
    /\ HasReturned
    /\ config.parallel_checks
    /\ \E i \in 1..Len(config.nodes) : ~config.nodes[i].enabled
    /\ Len(returned[1]) = 2
    /\ returned[1][1].name = config.nodes[2].name
    /\ returned[1][2].name = config.nodes[1].name

\* C6: when a node's check raises, check_all still returns one entry per
\* enabled node: the failing node's entry is unreachable (status UNREACHABLE)
\* with the exception's text as error_message, and every other entry is the
\* snapshot that node's own check returned.
C6_FailureIsolated ==
    HasReturned =>
        \A i \in 1..Len(config.nodes) :
            config.nodes[i].enabled =>
                /\ Cardinality(EntriesOf(i)) = 1
                /\ \A k \in EntriesOf(i) :
                      IF task[i].exc # None
                      THEN /\ ~returned[1][k].reachable
                           /\ returned[1][k].error_message = task[i].exc
                           /\ NodeStatus(returned[1][k]) = UNREACHABLE
                      ELSE returned[1][k] = task[i].health

\* a parallel pass in which one check raised and the other node's entry is
\* a reachable snapshot
C6_Witness ==
    /\ HasReturned
    /\ config.parallel_checks /\ Len(returned[1]) > 1
    /\ \E i \in 1..Len(config.nodes) : task[i].exc # None
    /\ \E k \in 1..Len(returned[1]) :
          returned[1][k].reachable /\ NodeStatus(returned[1][k]) = CRITICAL

\* the pass has a check whose collector never returns
SomeCheckHung == \E t \in 1..Len(config.nodes) : task[t].state = "hung"

\* C7: a check_all pass in which one node's collector hangs still
\* terminates: while the pass is under way some step of it (at the end, its
\* return) remains possible.
C7_HungPassReturns ==
    (pc # "idle" /\ SomeCheckHung) => ENABLED CheckAllStep

\* the times of the callback invocations of one key lie at least
\* CooldownSeconds apart
SendsApart(key) ==
    \A j, k \in 1..Len(sent[key]) :
        j < k => sent[key][k] - sent[key][j] >= CooldownSeconds

\* C8: over check_all passes made one after another, the callback gets a
\* given (node, message) at most once per 300 seconds, an alert is dropped only
\* within 300 seconds after a send of its key, and a thread that passed the
\* cooldown test (so sends) has no send of its key in the last 300 seconds.
C8_Cooldown ==
    /\ \A key \in DOMAIN sent : SendsApart(key)
    /\ \A d \in dropped :
          \E k \in 1..Len(SentAt(d[1])) :
              /\ SentAt(d[1])[k] <= d[2]
              /\ d[2] - SentAt(d[1])[k] < CooldownSeconds
    /\ \A t \in Threads :
          task[t].state = "sending" =>
              \A k \in 1..Len(SentAt(CooldownKey(task[t].health.name, Head(task[t].alerts)))) :
                  task[t].now - SentAt(CooldownKey(task[t].health.name, Head(task[t].alerts)))[k]
                      >= CooldownSeconds

\* the same alert was sent, and sent again once the window had passed
C8_Witness ==
    \E key \in DOMAIN sent :
        /\ Len(sent[key]) = 2
        /\ sent[key][2] - sent[key][1] = CooldownSeconds

\* C9: no interleaving lets two threads pass the cooldown test for the same
\* key, so the callback gets a key at most once per 300 seconds.
C9_NoDoubleSend ==
    /\ \A t, u \in Threads :
          (t # u /\ task[t].state = "sending" /\ task[u].state = "sending") =>
              CooldownKey(task[t].health.name, Head(task[t].alerts))
                  # CooldownKey(task[u].health.name, Head(task[u].alerts))
    /\ \A key \in DOMAIN sent : SendsApart(key)

\* C10: every enabled node's alert list is processed exactly once, before
\* its snapshot (collected or synthetic) is added to the results.
C10_AlertsProcessedOnce ==
    on_alert =>
        \A i \in 1..Len(config.nodes) :
            task[i].state = "appended" => processed[i] = 1

\* check_all takes its sequential branch for this configuration
SequentialMode ==
    ~(config.parallel_checks /\ Len(get_enabled_nodes(config)) > 1)

\* C19: in the sequential branch the check of a node does not start before
\* the checks of the enabled nodes configured before it have finished and
\* their snapshots are in the list, and the returned snapshots are in the
\* configuration order of the enabled nodes, also when checks fail.
C19_SequentialInOrder ==
    /\ pc = "sequential" =>
          \A t, u \in PoolThreads :
              (t < u /\ task[u].state \notin {"none", "queued"})
                  => task[t].state \in {"none", "appended"}
    /\ (HasReturned /\ SequentialMode) =>
          LET enabled_nodes == get_enabled_nodes(config)
          IN  /\ Len(returned[1]) = Len(enabled_nodes)
              /\ \A k \in 1..Len(enabled_nodes) :
                    returned[1][k].name = config.nodes[enabled_nodes[k]].name

\* a sequential pass over three enabled nodes with a disabled one between
\* them, in which one check raised
C19_Witness ==
    /\ HasReturned /\ ~config.parallel_checks
    /\ Len(returned[1]) = 3
    /\ \E i \in 1..Len(config.nodes) : ~config.nodes[i].enabled
    /\ \E i \in 1..Len(config.nodes) : task[i].exc # None
    /\ \E k \in 1..3 : returned[1][k].reachable

\* node i is configured with neither local monitoring nor SSH access
NoCollector_configured(i) == ~config.nodes[i].local /\ config.nodes[i].ssh = <<>>

\* C20: check_node for a node with neither local nor ssh returns, without
\* raising, an unreachable snapshot with the explanatory message; the
\* ClusterHealth check_all returns shows that node UNREACHABLE, and every other
\* enabled node's entry is what its collector returned or the failure
\* snapshot of its own check.
C20_NoCollectorUnreachable ==
    /\ \A i \in PoolThreads :
          (NoCollector_configured(i) /\ task[i].state \notin {"none", "queued"}) =>
              /\ task[i].state \in {"returned", "appended"}
              /\ task[i].exc = None
              /\ ~task[i].health.reachable
              /\ task[i].health.error_message
                    = "No collector configured (set local=True or provide SSH config)"
    /\ HasReturned =>
          \A i \in PoolThreads :
              config.nodes[i].enabled =>
                  \E k \in 1..Len(returned[1]) :
                      /\ returned[1][k].name = config.nodes[i].name
                      /\ IF NoCollector_configured(i)
                         THEN NodeStatus(returned[1][k]) = UNREACHABLE
                         ELSE \/ /\ task[i].exc = None
                                 /\ returned[1][k] \in CollectorResults(config.nodes[i])
                              \/ /\ task[i].exc # None
                                 /\ returned[1][k].error_message = task[i].exc

\* a returned pass with a node without collector and a node whose collector
\* reported critical memory
C20_Witness ==
    /\ HasReturned
    /\ \E i \in PoolThreads : config.nodes[i].enabled /\ NoCollector_configured(i)
    /\ \E k \in 1..Len(returned[1]) :
          NodeStatus(returned[1][k]) = UNREACHABLE
          /\ returned[1][k].error_message
                = "No collector configured (set local=True or provide SSH config)"
    /\ \E k \in 1..Len(returned[1]) : NodeStatus(returned[1][k]) = CRITICAL

\* the configuration the monitor was constructed with: check_node only ever
\* writes the thresholds of its nodes
ConstructedWith(s) ==
    /\ s.on_alert = on_alert
    /\ Len(s.config.nodes) = Len(config.nodes)
    /\ \A k \in 1..Len(config.nodes) :
          [s.config.nodes[k] EXCEPT !.thresholds = <<>>]
              = [config.nodes[k] EXCEPT !.thresholds = <<>>]

\* the thresholds in effect for node i: its override, else the global set
ResolvedThresholds(i) ==
    LET s == CHOOSE s \in Setups : ConstructedWith(s)
    IN  IF s.config.nodes[i].thresholds # <<>> THEN s.config.nodes[i].thresholds[1]
        ELSE config.thresholds

\* thread t holds the snapshot its collector returned
HoldsCollected(t) ==
    /\ task[t].state \in {"alerting", "sending", "returned", "appended"}
    /\ task[t].exc = None
    /\ ~NoCollector_configured(task[t].node)

\* C21: for a node with a collector the thresholds are resolved (override,
\* else global) in the node configuration before the collector runs, and
\* every snapshot the collector returns carries that resolved set, never the
\* defaults in place of a differing global set and never an empty set.
C21_ResolvedThresholds ==
    \A t \in PoolThreads :
        /\ task[t].state = "collecting" =>
              config.nodes[task[t].node].thresholds = <<ResolvedThresholds(task[t].node)>>
        /\ HoldsCollected(t) =>
              task[t].health.thresholds = Thresholds_to_dict(ResolvedThresholds(task[t].node))

\* thread t has finished _process_alerts for the snapshot its collector gave
AlertsProcessed(t) ==
    /\ task[t].state \in {"returned", "appended"}
    /\ task[t].exc = None
    /\ ~NoCollector_configured(task[t].node)

\* the on_alert calls made with the name and the message (n, m)
CallsOf(n, m) == {c \in calls : c.name = n /\ c.msg = m}

\* C22: an exception of the alert callback is caught: it never leaves
\* check_node, every remaining alert of the node is still passed to the
\* callback (or suppressed by its cooldown), and check_all returns the
\* ClusterHealth with the collector's snapshot unchanged.
C22_CallbackFailureCaught ==
    /\ \A t \in PoolThreads : task[t].state # "raised" /\ task[t].exc = None
    /\ \A t \in PoolThreads :
          AlertsProcessed(t) =>
              \A k \in 1..Len(GetAlerts(task[t].health)) :
                  LET m == GetAlerts(task[t].health)[k]
                  IN  \/ CallsOf(task[t].health.name, m) # {}
                      \/ \E d \in dropped : d[1] = CooldownKey(task[t].health.name, m)
    /\ HasReturned =>
          /\ Len(returned[1]) = Len(get_enabled_nodes(config))
          /\ \A i \in PoolThreads :
                config.nodes[i].enabled =>
                    \E k \in 1..Len(returned[1]) :
                        /\ returned[1][k] = task[i].health
                        /\ returned[1][k] \in CollectorResults(config.nodes[i])

\* the callback raised for the memory alert and was still called for the
\* service alert of the same snapshot, and check_all returned it
C22_Witness ==
    /\ HasReturned
    /\ Len(returned[1]) = 1 /\ returned[1][1].reachable
    /\ Len(GetAlerts(returned[1][1])) = 2
    /\ \E c \in CallsOf(returned[1][1].name, GetAlerts(returned[1][1])[1]) : c.raised
    /\ \E c \in CallsOf(returned[1][1].name, GetAlerts(returned[1][1])[2]) :
          ~c.raised /\ c.time = clock

\* C28: the time of an alert is stored before the callback runs and stays
\* stored when the callback raises: after a failed delivery the cooldown map
\* holds the key with that time or a later one, and the callback is not
\* called again for the same node and message within 300 seconds.
C28_FailedDeliveryCounts ==
    \A c \in calls :
        c.raised =>
            LET key == CooldownKey(c.name, c.msg)
            IN  /\ key \in DOMAIN alert_cooldown
                /\ alert_cooldown[key] >= c.time
                /\ \A c2 \in CallsOf(c.name, c.msg) :
                      c2.time > c.time => c2.time - c.time >= CooldownSeconds

\* a delivery failed and the same alert, raised again inside the window,
\* was suppressed
C28_Witness ==
    \E c \in calls :
        /\ c.raised
        /\ \E d \in dropped :
              /\ d[1] = CooldownKey(c.name, c.msg)
              /\ d[2] > c.time /\ d[2] - c.time < CooldownSeconds
        /\ \A c2 \in CallsOf(c.name, c.msg) : c2.time = c.time

\* C29: an alert is suppressed only by an earlier call with the identical
\* text: while a pass runs, every alert of a processed snapshot was passed
\* to the callback with exactly its message within the last 300 seconds, so
\* a message with another formatted value is dispatched; and the cooldown
\* map always holds the time of the last call of each key, a suppressed
\* alert leaving it unchanged.
C29_DistinctTextsDispatched ==
    /\ pc # "idle" =>
          \A t \in PoolThreads :
              AlertsProcessed(t) =>
                  \A k \in 1..Len(GetAlerts(task[t].health)) :
                      \E c \in CallsOf(task[t].health.name, GetAlerts(task[t].health)[k]) :
                          c.time <= clock /\ clock - c.time < CooldownSeconds
    /\ DOMAIN alert_cooldown = DOMAIN sent
    /\ \A key \in DOMAIN sent : alert_cooldown[key] = sent[key][Len(sent[key])]

\* memory at 95.0% and at 95.1% on the same node, both passed to the
\* callback less than 300 seconds apart
C29_Witness ==
    \E c1, c2 \in calls :
        /\ c1.name = c2.name
        /\ c1.msg = "CRITICAL: Memory at 95.0%"
        /\ c2.msg = "CRITICAL: Memory at 95.1%"
        /\ c2.time >= c1.time /\ c2.time - c1.time < CooldownSeconds
    /\ dropped # {}

\* C27: once a check_all call has returned, get_last_health returns the
\* ClusterHealth that call returned and get_summary reports its status and
\* its counts, a pass without enabled nodes and its empty ClusterHealth
\* included.
C27_LastHealthIsReturned ==
    HasReturned =>
        /\ get_last_health = returned
        /\ get_summary.status = ClusterStatus(returned[1])
        /\ "nodes" \in DOMAIN get_summary
        /\ get_summary.nodes = [total |-> Len(returned[1]),
                                healthy |-> healthy_count(returned[1]),
                                warning |-> warning_count(returned[1]),
                                critical |-> critical_count(returned[1])]

-----------------------------------------------------------------------------
(* Properties of the collectors                                            *)

\* collect() has returned
Collected == collector.step = "done" /\ collector.result # <<>>

\* C11: a collect() during which connecting or executing a command failed
\* returns a snapshot with reachable = false whose error_message is the text
\* of a failure it met, and a node no connect reached is never reported
\* reachable.
C11_FailureIsUnreachable ==
    Collected =>
        /\ collector.failures # {} =>
              /\ ~collector.result[1].reachable
              /\ collector.result[1].error_message \in collector.failures
        /\ (collector.kind = "ssh" /\ ~collector.link.up) => ~collector.result[1].reachable

====
